---- MODULE Spec2Model ----
(***************************************************************************)
(* Verification model of the UDX710-TOOLS control plane.                   *)
(*                                                                         *)
(* The module holds one state machine per subsystem; each subsystem has    *)
(* its own variables, its own initial condition and next-state relation,   *)
(* and its own specification (SpecAT, SpecData, ...).  A subsystem's       *)
(* specification leaves the variables of the other subsystems unchanged.   *)
(***************************************************************************)
EXTENDS Integers, Sequences, FiniteSets, TLC

(***************************************************************************)
(* Generic helpers                                                         *)
(***************************************************************************)
Min(a, b) == IF a <= b THEN a ELSE b

Max(a, b) == IF a >= b THEN a ELSE b

\* The first n elements of s (all of s when it is shorter).
Take(s, n) == SubSeq(s, 1, Min(Len(s), n))

\* The elements of s after the first n.
Drop(s, n) == SubSeq(s, n + 1, Len(s))

VARIABLES
  \* ---- AT bridge (ofono.c: execute_at) ----
  g_dbus_conn,      \* 0 = NULL, 1 = a live GDBusConnection
  g_modem_proxy,    \* 0 = NULL, 1 = a live GDBusProxy
  g_at_mutex,       \* 0 = unlocked, otherwise the thread that holds it
  atPc,             \* position of each thread inside execute_at
  atRetry,          \* the loop variable `retry` of each thread
  atRc,             \* the value the last execute_at of each thread returned
  atCalls,          \* SendAtcmd calls made by the thread's current execute_at
  atLog             \* what each of these calls came back with, in order

atVars == <<g_dbus_conn, g_modem_proxy, g_at_mutex, atPc, atRetry, atRc, atCalls, atLog>>

VARIABLES
  \* ---- Data bearer monitor (ofono.c) ----
  now,              \* wall clock, in seconds
  ofonoUp,          \* the cellular daemon owns its bus name
  netStatus,        \* NetworkRegistration.Status as the daemon reports it
  ctxApn,           \* AccessPointName of the internet context
  ctxActive,        \* ConnectionContext.Active of every context
  mon,              \* the monitor's globals (g_data_monitor_running, ...)
  timers,           \* GLib timeout sources that are armed: {[id, due]}
  nextSrcId,        \* the id the next g_timeout_add returns
  watchPending,     \* the name watcher still owes its first appeared/vanished call
  burstEvents,      \* Active=false events handled since the timer was last idle
  burstRuns,        \* delayed_restore_data runs since the timer was last idle
  evLast,           \* time of the last Active=false event handled (-1: none)
  oblAt,            \* time of the Active=false event whose restore is owed (-1: none)
  lastRun           \* what the last delayed_restore_data saw and did

dataVars == <<now, ofonoUp, netStatus, ctxApn, ctxActive, mon, timers, nextSrcId,
              watchPending, burstEvents, burstRuns, evLast, oblAt, lastRun>>

VARIABLES
  \* ---- SMS store (sms.c, printed in usb_mode.c) ----
  smsIds,           \* ids of the rows of table sms
  smsNextId,        \* the id the next INSERT INTO sms gets
  sentIds,          \* ids of the rows of table sent_sms
  sentNextId,       \* the id the next INSERT INTO sent_sms gets
  g_max_sms_count,  \* inbox cap
  g_max_sent_count, \* sent list cap
  smsPc,            \* "idle", or the store that has inserted and not yet evicted
  smsStored,        \* id and content column of the newest row inserted into sms
  smsDelivered,     \* id and body of the last incoming message that was stored
  smsSendLast       \* the last sms_send call: accepted by the daemon, status of its row

smsVars == <<smsIds, smsNextId, sentIds, sentNextId, g_max_sms_count, g_max_sent_count,
             smsPc, smsStored, smsDelivered, smsSendLast>>

VARIABLES
  \* ---- Webhook template substitution (sms.c: send_webhook_notification_ext) ----
  tplTemplate,      \* g_webhook_config.body
  tplMsg,           \* the message: sender, content and the formatted time
  tplBody,          \* char body[4096]
  tplPhase,         \* the while loop that is running: "sender", "content", "time"; "done"
  tplP              \* p: -1 before strstr is evaluated, 0 for NULL, else the match position

tplVars == <<tplTemplate, tplMsg, tplBody, tplPhase, tplP>>

VARIABLES
  \* ---- HTTP routing (http_server.c: http_handler) ----
  httpReq,          \* the request being answered: uri, method, bearer token, packed file
  httpRan,          \* the function http_handler passed the request to ("none": none)
  httpStatus        \* the status http_handler itself replied with (0: it sent no reply)

httpVars == <<httpReq, httpRan, httpStatus>>

VARIABLES
  \* ---- Security questions (security.c) ----
  secRow,           \* row id = 1 of table security_questions, or NoRow
  secNow,           \* time(NULL)
  secReq,           \* the request of the last security_setup call
  secRc,            \* what the last security_setup call returned (1: no call yet)
  secFirst          \* the row as the setup that succeeded first left it, or NoRow

secVars == <<secRow, secNow, secReq, secRc, secFirst>>

VARIABLES
  \* ---- IPv6 forwarder configuration (ipv6_proxy.c, printed in ofono.h) ----
  ip6Row,           \* row id = 1 of table ipv6_proxy_config, or NoRow
  g_current_config, \* the configuration held in memory
  ip6Saved,         \* the config passed to the last save that succeeded, or NoRow
  ip6Rc,            \* what the last ipv6_proxy_set_config returned (1: no call yet)
  ip6Read,          \* what the last ipv6_proxy_get_config returned, or NoRow
  g_send_timer,     \* period in seconds of the armed send timer (0: none armed)
  ip6Filled         \* what filled g_current_config last: "default", "row", "saved"

ip6Vars == <<ip6Row, g_current_config, ip6Saved, ip6Rc, ip6Read, g_send_timer, ip6Filled>>

VARIABLES
  \* ---- USB mode files (usb_mode.c) ----
  usbTmp,           \* /mnt/data/mode_tmp.cfg
  usbCfg,           \* /mnt/data/mode.cfg
  usbGot,           \* the last usb_mode_get: its result and the files it saw, or NoRow
  usbSetRc          \* what the last usb_mode_set returned (1: no call yet)

usbVars == <<usbTmp, usbCfg, usbGot, usbSetRc>>

VARIABLES
  \* ---- USB hot switch (usb_mode.c: handle_usb_advance, usb_mode_switch_advanced) ----
  swPc,             \* 0: no switch is running; else the index of its next step
  swLog,            \* the steps the current (or last) switch has performed, in order
  swMode,           \* the mode the switch was asked for
  udc_name,         \* the UDC name usb_mode_switch_advanced captured ("": none yet)
  swRet,            \* what the last usb_mode_switch_advanced returned (1: none yet)
  udcClass,         \* the entry of /sys/class/udc ("": the directory lists none)
  gadget,           \* the gadget: UDC binding, adbd, links, function dirs, network
  connSend,         \* the connection's send buffer: "empty", "queued", "sent"
  connReply         \* the reply the handler put into the send buffer

usbSwVars == <<swPc, swLog, swMode, udc_name, swRet, udcClass, gadget, connSend, connReply>>

VARIABLES
  \* ---- IPv6 forwarder service (ipv6_proxy.c, printed in ofono.h) ----
  pxRules,          \* table ipv6_proxy_rules: rule id -> [enabled]
  pxFw,             \* the ports ip6tables accepts
  pxProcs,          \* every pid forked so far -> "running", "dying", "zombie", "reaped"
  g_rule_slots,     \* g_rule_pids / g_rule_ids: the sequence of [pid, id] slots in use
  g_service_running,\* 0 or 1
  pxPc,             \* "idle", or the loop of ipv6_proxy_stop that runs: "kill"
  pxI,              \* the loop variable i of the kill loop
  pxKilledAt,       \* the last SIGKILL: the pid and the ports of enabled rules then open
  pxHandlers        \* the workers that have a connection handler (their child) alive

pxVars == <<pxRules, pxFw, pxProcs, g_rule_slots, g_service_running, pxPc, pxI, pxKilledAt,
           pxHandlers>>

VARIABLES
  \* ---- Data watchdog thread (ofono.c) ----
  g_watchdog_running,  \* the flag the thread polls
  g_watchdog_interval, \* seconds between two checks
  wdThreads,           \* the threads created so far: pc, i, wakeAt, stoppedAt, late
  wdNow                \* wall clock, in seconds

wdVars == <<g_watchdog_running, g_watchdog_interval, wdThreads, wdNow>>

VARIABLES
  \* ---- SMS webhook delivery and its log (usb_mode.c: send_webhook_notification_ext) ----
  g_webhook_config,    \* the fields the delivery reads: enabled, url
  g_webhook_logs,      \* the array of MAX_WEBHOOK_LOGS entries: id, response, result
  g_webhook_log_count, \* entries in use
  g_webhook_log_id,    \* the id given to the last entry
  whCalls              \* calls of send_webhook_notification_ext since the start

whVars == <<g_webhook_config, g_webhook_logs, g_webhook_log_count, g_webhook_log_id, whCalls>>

VARIABLES
  \* ---- SMS engine: bus connection and its upkeep (usb_mode.c: sms_maintenance) ----
  g_sms_initialized,        \* 0 or 1
  g_sms_dbus_conn,          \* "null", "open", or "closed" (the object is still held)
  g_signal_subscription_id, \* 0, or the id of the IncomingMessage subscription
  g_name_watch_id,          \* 0, or the id of the org.ofono name watch
  g_ofono_available,        \* 0 or 1
  maintenance_counter,      \* the static counter of http_server_run
  mtPc,                     \* "boot" before sms_init has been called, then "run"
  mtBusUp,                  \* the system bus accepts connections
  mtOfonoUp,                \* org.ofono is on the bus
  mtTick,                   \* the sms_maintenance call just made: the state it found
  sms_fix_enabled,          \* sms_config.sms_fix_enabled, as sms_get_fix_enabled reads it
  mtAppeared                \* the on_ofono_appeared call just made: what it did

mtVars == <<g_sms_initialized, g_sms_dbus_conn, g_signal_subscription_id, g_name_watch_id,
            g_ofono_available, maintenance_counter, mtPc, mtBusUp, mtOfonoUp, mtTick,
            sms_fix_enabled, mtAppeared>>

VARIABLES
  \* ---- Rathole tunnel controller (rathole.c: rathole_generate_config, rathole_start) ----
  rhServerAddr,  \* g_current_config.server_addr
  rhServices,    \* the rows of rathole_services, in the order rathole_service_list gives
  rhConfigFile,  \* client.toml: NoRow, or its lines
  rhLogFile,     \* rathole.log: "stale" (lines of an earlier run) or "empty"
  rhPidFile,     \* rathole.pid: 0 when absent, else the pid written
  rhProc,        \* the rathole process: 0 when none runs, else its pid
  rhNextPid,     \* the pid the next spawn gets
  rhLast         \* the last rathole_start call: its inputs, steps, alive at the check, rc

rhVars == <<rhServerAddr, rhServices, rhConfigFile, rhLogFile, rhPidFile, rhProc,
            rhNextPid, rhLast>>

VARIABLES
  \* ---- IPv6 forwarder: the rule table and the slots (ofono.h: ipv6_proxy_rule_add) ----
  prRules,    \* the rows of ipv6_proxy_rules, ORDER BY id
  prSlots,    \* g_rule_pids / g_rule_ids up to g_rule_count, as [pid, id] records
  prRunning,  \* g_service_running, seen with the whole table
  prFw,       \* the dports the ip6tables INPUT chain accepts
  prLast      \* the last call: op and return value

prVars == <<prRules, prSlots, prRunning, prFw, prLast>>

VARIABLES
  \* ---- IPv6 address reporter (ipv6_proxy.c, printed in ofono.h: do_send_ipv6) ----
  rpPc,          \* "idle": no report runs; "attempt": at the head of the loop; "sleep": in sleep(10)
  retry_on_fail, \* the argument of the running (or last) do_send_ipv6
  retry_count,   \* the loop counter of the running (or last) do_send_ipv6
  rpAttempts,    \* attempts the current (or last) report has made
  rpElapsed,     \* seconds the current (or last) report has slept
  rpSuccessAt,   \* the attempt that delivered the report, 0 while none has
  rpCalls        \* do_send_ipv6 calls so far

rpVars == <<rpPc, retry_on_fail, retry_count, rpAttempts, rpElapsed, rpSuccessAt, rpCalls>>

VARIABLES
  \* ---- SMS configuration row (sms.c, printed in usb_mode.c) ----
  cfRow,         \* row id = 1 of table sms_config, or NoRow
  cfMaxSms,      \* g_max_sms_count, seen with the row
  cfMaxSent,     \* g_max_sent_count, seen with the row
  cfFixDefault,  \* what column sms_fix_enabled reads as when an INSERT names no value for it
  cfFixWritten   \* the flag the last successful sms_set_fix_enabled stored, -1 before any

cfVars == <<cfRow, cfMaxSms, cfMaxSent, cfFixDefault, cfFixWritten>>

VARIABLES
  \* ---- Restore check, step by step (ofono.c: ofono_check_and_restore_data) ----
  crNet,     \* NetworkRegistration.Status of the modem
  crApn,     \* AccessPointName of the internet context
  crActive,  \* Active of each connection context
  crLast     \* the last call: the state it met, which reads succeeded, what it returned and issued

crVars == <<crNet, crApn, crActive, crLast>>

VARIABLES
  \* ---- IPv6 forwarder tunnel (ipv6_proxy.c, printed in ofono.h: proxy_make_tunnel) ----
  tnPc,          \* "accepted": before connect(); "relaying": in the select loop; "closed": after cleanup
  outbuf,        \* bytes read from the server and not yet written to the client (outlen bytes)
  inbuf,         \* bytes read from the client and not yet written to the server (inlen bytes)
  tnToClient,    \* the bytes write(rsock, ...) has accepted, in order
  tnToServer,    \* the bytes write(sock, ...) has accepted, in order
  tnFromServer,  \* how many bytes read(sock, ...) has returned
  tnFromClient   \* how many bytes read(rsock, ...) has returned

tnVars == <<tnPc, outbuf, inbuf, tnToClient, tnToServer, tnFromServer, tnFromClient>>

VARIABLES
  \* ---- Dispatcher thread (http_server.c: http_server_run) and its callbacks ----
  dpIn,      \* the callback the thread is inside: "none", "on_incoming_message", "send_timer_callback"
  dpAt,      \* where in it: "run", "curl" (popen/fgets on curl), "sleep" (sleep(10))
  dpRetry,   \* retry_count of the do_send_ipv6 the timer callback runs
  dpQueue    \* bus signals and timers that became due while the thread was inside a callback

dpVars == <<dpIn, dpAt, dpRetry, dpQueue>>

VARIABLES
  \* ---- Bearer restore by the background components (ofono.c) ----
  bgWorld,      \* the daemon's side and the monitor's globals, as in World
  bgWatchdog,   \* g_watchdog_running, with one watchdog thread
  bgPc,         \* per thread: "idle", or "activating": in ofono_check_and_restore_data, about to call ofono_set_data_status(1)
  bgRequested,  \* the last ofono_set_data_status a caller made with success: "none", "on", "off"
  bgRevived     \* a background component has set Active = true since that request

bgVars == <<bgWorld, bgWatchdog, bgPc, bgRequested, bgRevived>>

vars == <<atVars, dataVars, smsVars, tplVars, httpVars, secVars, ip6Vars, usbVars,
          usbSwVars, pxVars, wdVars, whVars, mtVars, rhVars, prVars, rpVars, cfVars,
          crVars, tnVars, dpVars, bgVars>>

\* What the steps of one subsystem leave unchanged: the other subsystems.
notAt == <<dataVars, smsVars, tplVars, httpVars, secVars, ip6Vars, usbVars, usbSwVars,
          pxVars, wdVars, whVars, mtVars, rhVars, prVars, rpVars, cfVars, crVars,
          tnVars, dpVars, bgVars>>

notData == <<atVars, smsVars, tplVars, httpVars, secVars, ip6Vars, usbVars, usbSwVars,
          pxVars, wdVars, whVars, mtVars, rhVars, prVars, rpVars, cfVars, crVars,
          tnVars, dpVars, bgVars>>

notSms == <<atVars, dataVars, tplVars, httpVars, secVars, ip6Vars, usbVars, usbSwVars,
          pxVars, wdVars, whVars, mtVars, rhVars, prVars, rpVars, cfVars, crVars,
          tnVars, dpVars, bgVars>>

notTpl == <<atVars, dataVars, smsVars, httpVars, secVars, ip6Vars, usbVars, usbSwVars,
          pxVars, wdVars, whVars, mtVars, rhVars, prVars, rpVars, cfVars, crVars,
          tnVars, dpVars, bgVars>>

notHttp == <<atVars, dataVars, smsVars, tplVars, secVars, ip6Vars, usbVars, usbSwVars,
          pxVars, wdVars, whVars, mtVars, rhVars, prVars, rpVars, cfVars, crVars,
          tnVars, dpVars, bgVars>>

notSec == <<atVars, dataVars, smsVars, tplVars, httpVars, ip6Vars, usbVars, usbSwVars,
          pxVars, wdVars, whVars, mtVars, rhVars, prVars, rpVars, cfVars, crVars,
          tnVars, dpVars, bgVars>>

notIp6 == <<atVars, dataVars, smsVars, tplVars, httpVars, secVars, usbVars, usbSwVars,
          pxVars, wdVars, whVars, mtVars, rhVars, prVars, rpVars, cfVars, crVars,
          tnVars, dpVars, bgVars>>

notUsb == <<atVars, dataVars, smsVars, tplVars, httpVars, secVars, ip6Vars, usbSwVars,
          pxVars, wdVars, whVars, mtVars, rhVars, prVars, rpVars, cfVars, crVars,
          tnVars, dpVars, bgVars>>

notUsbSw == <<atVars, dataVars, smsVars, tplVars, httpVars, secVars, ip6Vars, usbVars,
          pxVars, wdVars, whVars, mtVars, rhVars, prVars, rpVars, cfVars, crVars,
          tnVars, dpVars, bgVars>>

notPx == <<atVars, dataVars, smsVars, tplVars, httpVars, secVars, ip6Vars, usbVars,
          usbSwVars, wdVars, whVars, mtVars, rhVars, prVars, rpVars, cfVars, crVars,
          tnVars, dpVars, bgVars>>

notWd == <<atVars, dataVars, smsVars, tplVars, httpVars, secVars, ip6Vars, usbVars,
          usbSwVars, pxVars, whVars, mtVars, rhVars, prVars, rpVars, cfVars, crVars,
          tnVars, dpVars, bgVars>>

notWh == <<atVars, dataVars, smsVars, tplVars, httpVars, secVars, ip6Vars, usbVars,
          usbSwVars, pxVars, wdVars, mtVars, rhVars, prVars, rpVars, cfVars, crVars,
          tnVars, dpVars, bgVars>>

notMt == <<atVars, dataVars, smsVars, tplVars, httpVars, secVars, ip6Vars, usbVars,
          usbSwVars, pxVars, wdVars, whVars, rhVars, prVars, rpVars, cfVars, crVars,
          tnVars, dpVars, bgVars>>

notRh == <<atVars, dataVars, smsVars, tplVars, httpVars, secVars, ip6Vars, usbVars,
          usbSwVars, pxVars, wdVars, whVars, mtVars, prVars, rpVars, cfVars, crVars,
          tnVars, dpVars, bgVars>>

notPr == <<atVars, dataVars, smsVars, tplVars, httpVars, secVars, ip6Vars, usbVars,
          usbSwVars, pxVars, wdVars, whVars, mtVars, rhVars, rpVars, cfVars, crVars,
          tnVars, dpVars, bgVars>>

notRp == <<atVars, dataVars, smsVars, tplVars, httpVars, secVars, ip6Vars, usbVars,
          usbSwVars, pxVars, wdVars, whVars, mtVars, rhVars, prVars, cfVars, crVars,
          tnVars, dpVars, bgVars>>

notCf == <<atVars, dataVars, smsVars, tplVars, httpVars, secVars, ip6Vars, usbVars,
          usbSwVars, pxVars, wdVars, whVars, mtVars, rhVars, prVars, rpVars, crVars,
          tnVars, dpVars, bgVars>>

notCr == <<atVars, dataVars, smsVars, tplVars, httpVars, secVars, ip6Vars, usbVars,
          usbSwVars, pxVars, wdVars, whVars, mtVars, rhVars, prVars, rpVars, cfVars,
          tnVars, dpVars, bgVars>>

notTn == <<atVars, dataVars, smsVars, tplVars, httpVars, secVars, ip6Vars, usbVars,
          usbSwVars, pxVars, wdVars, whVars, mtVars, rhVars, prVars, rpVars, cfVars,
          crVars, dpVars, bgVars>>

notDp == <<atVars, dataVars, smsVars, tplVars, httpVars, secVars, ip6Vars, usbVars,
          usbSwVars, pxVars, wdVars, whVars, mtVars, rhVars, prVars, rpVars, cfVars,
          crVars, tnVars, bgVars>>

notBg == <<atVars, dataVars, smsVars, tplVars, httpVars, secVars, ip6Vars, usbVars,
          usbSwVars, pxVars, wdVars, whVars, mtVars, rhVars, prVars, rpVars, cfVars,
          crVars, tnVars, dpVars>>

\* An absent row, file or result.
NoRow == [none |-> TRUE]

(***************************************************************************)
(* AT bridge: execute_at, init_dbus, close_dbus  (src/src/system/ofono.c)  *)
(***************************************************************************)
\* Number of threads that may call execute_at concurrently.
NumAtThreads == 2

AtThreads == 1..NumAtThreads

\* #define MAX_RETRIES 1
MAX_RETRIES == 1

\* What one g_dbus_proxy_call_sync(..., "SendAtcmd", ...) can come back with.
AtOutcomes == {"ok", "empty", "closed", "in_progress", "other"}

\* is_dbus_initialized(): both the connection and the proxy exist.
is_dbus_initialized == g_dbus_conn # 0 /\ g_modem_proxy # 0

\* init_dbus(): nothing to do when initialised; otherwise get the system bus
\* connection (if missing) and create the modem proxy.  connOk / proxyOk say
\* whether g_bus_get_sync and g_dbus_proxy_new_sync succeed.  The result is
\* <<return value, g_dbus_conn', g_modem_proxy'>>.
init_dbus(connOk, proxyOk) ==
  IF g_dbus_conn # 0 /\ g_modem_proxy # 0 THEN <<0, g_dbus_conn, g_modem_proxy>>
  ELSE IF g_dbus_conn = 0 /\ ~connOk THEN <<-1, 0, g_modem_proxy>>
  ELSE IF ~proxyOk THEN <<-1, 1, 0>>
  ELSE <<0, 1, 1>>

\* init_dbus() run right after close_dbus(): both globals start out NULL.
init_dbus_after_close(connOk, proxyOk) ==
  IF ~connOk THEN <<-1, 0, 0>>
  ELSE IF ~proxyOk THEN <<-1, 1, 0>>
  ELSE <<0, 1, 1>>

\* execute_at, up to the mutex: argument and AT-prefix validation, then the
\* is_dbus_initialized() test that decides whether init_dbus() is needed.
AtEnter(t, valid) ==
  /\ UNCHANGED notAt
  /\ atPc[t] = "idle"
  /\ IF ~valid
       THEN /\ atRc' = [atRc EXCEPT ![t] = -1]
            /\ UNCHANGED <<atPc, atCalls, atLog>>
       ELSE /\ atPc' = [atPc EXCEPT ![t] = IF is_dbus_initialized THEN "lock" ELSE "init"]
            /\ atCalls' = [atCalls EXCEPT ![t] = 0]
            /\ atLog' = [atLog EXCEPT ![t] = <<>>]
            /\ UNCHANGED atRc
  /\ UNCHANGED <<g_dbus_conn, g_modem_proxy, g_at_mutex, atRetry>>

\* execute_at: the init_dbus() call made before the mutex is taken.
AtInit(t, connOk, proxyOk) ==
  /\ UNCHANGED notAt
  /\ atPc[t] = "init"
  /\ LET r == init_dbus(connOk, proxyOk) IN
       /\ g_dbus_conn' = r[2]
       /\ g_modem_proxy' = r[3]
       /\ IF r[1] # 0
            THEN /\ atPc' = [atPc EXCEPT ![t] = "idle"]
                 /\ atRc' = [atRc EXCEPT ![t] = -1]
            ELSE /\ atPc' = [atPc EXCEPT ![t] = "lock"]
                 /\ UNCHANGED atRc
  /\ UNCHANGED <<g_at_mutex, atRetry, atCalls, atLog>>

\* A variant of the lock step that does not wait for the mutex.
AtLockNoWait(t) ==
  /\ UNCHANGED notAt
  /\ atPc[t] = "lock"
  /\ g_at_mutex' = t
  /\ atPc' = [atPc EXCEPT ![t] = "send"]
  /\ atRetry' = [atRetry EXCEPT ![t] = 0]
  /\ UNCHANGED <<g_dbus_conn, g_modem_proxy, atRc, atCalls, atLog>>

\* execute_at: pthread_mutex_lock(&g_at_mutex), then retry = 0.
AtLock(t) ==
  /\ UNCHANGED notAt
  /\ atPc[t] = "lock"
  /\ g_at_mutex = 0
  /\ g_at_mutex' = t
  /\ atPc' = [atPc EXCEPT ![t] = "send"]
  /\ atRetry' = [atRetry EXCEPT ![t] = 0]
  /\ UNCHANGED <<g_dbus_conn, g_modem_proxy, atRc, atCalls, atLog>>

\* execute_at: the thread enters g_dbus_proxy_call_sync(g_modem_proxy, "SendAtcmd").
AtSend(t) ==
  /\ UNCHANGED notAt
  /\ atPc[t] = "send"
  /\ atPc' = [atPc EXCEPT ![t] = "incall"]
  /\ atCalls' = [atCalls EXCEPT ![t] = @ + 1]
  /\ UNCHANGED <<g_dbus_conn, g_modem_proxy, g_at_mutex, atRetry, atRc, atLog>>

\* The loop's `continue`: retry++ and the test retry <= MAX_RETRIES.
AtContinue(t, pcs) ==
  /\ atRetry' = [atRetry EXCEPT ![t] = @ + 1]
  /\ atPc' = [atPc EXCEPT ![t] = IF atRetry[t] + 1 <= MAX_RETRIES THEN pcs ELSE "unlock"]

\* A variant of the result handling that also retries after any other error.
AtReturnRetryAny(t, outcome, connOk, proxyOk) ==
  /\ UNCHANGED notAt
  /\ atPc[t] = "incall"
  /\ g_modem_proxy = 0 => outcome = "other"
  /\ CASE outcome = "ok" ->
            /\ atRc' = [atRc EXCEPT ![t] = 0]
            /\ atPc' = [atPc EXCEPT ![t] = "unlock"]
            /\ UNCHANGED <<g_dbus_conn, g_modem_proxy, atRetry>>
       [] outcome = "empty" ->
            /\ atRc' = [atRc EXCEPT ![t] = -1]
            /\ atPc' = [atPc EXCEPT ![t] = "unlock"]
            /\ UNCHANGED <<g_dbus_conn, g_modem_proxy, atRetry>>
       [] outcome = "closed" ->
            LET r == init_dbus_after_close(connOk, proxyOk) IN
              /\ g_dbus_conn' = r[2]
              /\ g_modem_proxy' = r[3]
              /\ atRc' = [atRc EXCEPT ![t] = -1]
              /\ IF r[1] # 0
                   THEN /\ atPc' = [atPc EXCEPT ![t] = "unlock"]
                        /\ UNCHANGED atRetry
                   ELSE AtContinue(t, "send")
       [] outcome \in {"in_progress", "other"} ->
            /\ atRc' = [atRc EXCEPT ![t] = -1]
            /\ atPc' = [atPc EXCEPT ![t] = "sleep"]
            /\ UNCHANGED <<g_dbus_conn, g_modem_proxy, atRetry>>
  /\ atLog' = [atLog EXCEPT ![t] = Append(@, outcome)]
  /\ UNCHANGED <<g_at_mutex, atCalls>>

\* execute_at: the bus call returns and its result is handled.
AtReturn(t, outcome, connOk, proxyOk) ==
  /\ UNCHANGED notAt
  /\ atPc[t] = "incall"
  /\ g_modem_proxy = 0 => outcome = "other"
  /\ CASE outcome = "ok" ->
            /\ atRc' = [atRc EXCEPT ![t] = 0]
            /\ atPc' = [atPc EXCEPT ![t] = "unlock"]
            /\ UNCHANGED <<g_dbus_conn, g_modem_proxy, atRetry>>
       [] outcome \in {"empty", "other"} ->
            /\ atRc' = [atRc EXCEPT ![t] = -1]
            /\ atPc' = [atPc EXCEPT ![t] = "unlock"]
            /\ UNCHANGED <<g_dbus_conn, g_modem_proxy, atRetry>>
       [] outcome = "closed" ->
            LET r == init_dbus_after_close(connOk, proxyOk) IN
              /\ g_dbus_conn' = r[2]
              /\ g_modem_proxy' = r[3]
              /\ atRc' = [atRc EXCEPT ![t] = -1]
              /\ IF r[1] # 0
                   THEN /\ atPc' = [atPc EXCEPT ![t] = "unlock"]
                        /\ UNCHANGED atRetry
                   ELSE AtContinue(t, "send")
       [] outcome = "in_progress" ->
            /\ atRc' = [atRc EXCEPT ![t] = -1]
            /\ atPc' = [atPc EXCEPT ![t] = "sleep"]
            /\ UNCHANGED <<g_dbus_conn, g_modem_proxy, atRetry>>
  /\ atLog' = [atLog EXCEPT ![t] = Append(@, outcome)]
  /\ UNCHANGED <<g_at_mutex, atCalls>>

\* execute_at: g_usleep(500000) is over, `continue`.
AtWake(t) ==
  /\ UNCHANGED notAt
  /\ atPc[t] = "sleep"
  /\ AtContinue(t, "send")
  /\ UNCHANGED <<g_dbus_conn, g_modem_proxy, g_at_mutex, atRc, atCalls, atLog>>

\* execute_at: pthread_mutex_unlock(&g_at_mutex); return rc.
AtUnlock(t) ==
  /\ UNCHANGED notAt
  /\ atPc[t] = "unlock"
  /\ g_at_mutex' = 0
  /\ atPc' = [atPc EXCEPT ![t] = "idle"]
  /\ UNCHANGED <<g_dbus_conn, g_modem_proxy, atRetry, atRc, atCalls, atLog>>

\* The bus connection and proxy are NULL until the first init_dbus().
ATInit ==
  /\ g_dbus_conn = 0
  /\ g_modem_proxy = 0
  /\ g_at_mutex = 0
  /\ atPc = [t \in AtThreads |-> "idle"]
  /\ atRetry = [t \in AtThreads |-> 0]
  /\ atRc = [t \in AtThreads |-> 0]
  /\ atCalls = [t \in AtThreads |-> 0]
  /\ atLog = [t \in AtThreads |-> <<>>]

\* The AT bridge at rest, for the specifications of the other subsystems.
ATIdle == ATInit

ATNext ==
  \E t \in AtThreads :
    \/ \E valid \in BOOLEAN : AtEnter(t, valid)
    \/ \E connOk, proxyOk \in BOOLEAN : AtInit(t, connOk, proxyOk)
    \/ AtLock(t)
    \/ AtSend(t)
    \/ \E outcome \in AtOutcomes, connOk, proxyOk \in BOOLEAN :
         AtReturn(t, outcome, connOk, proxyOk)
    \/ AtWake(t)
    \/ AtUnlock(t)


(***************************************************************************)
(* Data bearer monitor: ofono_set_data_status, ofono_check_and_restore_data *)
(* and the signal-driven monitor  (src/src/system/ofono.c)                 *)
(***************************************************************************)
\* g_timeout_add(2000, delayed_restore_data, NULL), in seconds.
RESTORE_DELAY == 2

\* The clock stops at MaxTime.
MaxTime == 4

\* At most MaxArm timeout sources are created in one behaviour.
MaxArm == 3

\* #define DEFAULT_CONTEXT_PATH "/ril_0/context2"
DEFAULT_CONTEXT_PATH == "/ril_0/context2"

\* The connection contexts of the modem and their Type property.
Contexts == {"/ril_0/context1", "/ril_0/context2"}

ctxType == [c \in Contexts |-> IF c = "/ril_0/context2" THEN "internet" ELSE "ims"]

NetStatuses == {"registered", "roaming", "searching"}

Apns == {"", "cmnet"}

\* The monitor's globals before ofono_start_data_monitor and after
\* ofono_stop_data_monitor.
MonStopped ==
  [g_data_monitor_running |-> 0, g_monitor_dbus_conn |-> 0,
   g_ofono_monitor_watch_id |-> 0, g_context_signal_id |-> 0,
   g_network_signal_id |-> 0, g_manager_signal_id |-> 0,
   g_restore_timeout_id |-> 0]

\* The state a handler works on, as one record: the daemon's side (up, net,
\* apn, active), the monitor's globals, the armed timeout sources, and the
\* SetProperty calls the handler has issued so far.
World ==
  [up |-> ofonoUp, net |-> netStatus, apn |-> ctxApn, active |-> ctxActive,
   mon |-> mon, timers |-> timers, nextId |-> nextSrcId,
   pending |-> watchPending, issued |-> <<>>]

\* find_internet_context_path(): the internet context the daemon lists, or
\* DEFAULT_CONTEXT_PATH when the listing cannot be had.
find_internet_context_path(w) ==
  IF w.up THEN CHOOSE c \in Contexts : ctxType[c] = "internet"
  ELSE DEFAULT_CONTEXT_PATH

\* g_source_remove(id)
g_source_remove(w, id) == [w EXCEPT !.timers = {s \in @ : s.id # id}]

\* unsubscribe_data_monitor_signals()
unsubscribe_data_monitor_signals(w) ==
  [w EXCEPT !.mon.g_context_signal_id = 0,
            !.mon.g_network_signal_id = 0,
            !.mon.g_manager_signal_id = 0]

\* subscribe_data_monitor_signals(): nothing without a bus connection.
subscribe_data_monitor_signals(w) ==
  IF w.mon.g_monitor_dbus_conn = 0 THEN w
  ELSE [w EXCEPT !.mon.g_context_signal_id = 1,
                 !.mon.g_network_signal_id = 1,
                 !.mon.g_manager_signal_id = 1]

\* ofono_start_data_monitor(); connOk says whether g_bus_get_sync succeeds.
\* The name watcher reports the daemon's presence from the main loop later.
ofono_start_data_monitor(w, connOk) ==
  IF w.mon.g_data_monitor_running # 0 THEN w
  ELSE IF ~connOk THEN w
  ELSE [w EXCEPT !.mon.g_monitor_dbus_conn = 1,
                 !.mon.g_ofono_monitor_watch_id = 1,
                 !.mon.g_data_monitor_running = 1,
                 !.pending = TRUE]

\* ofono_stop_data_monitor()
ofono_stop_data_monitor(w) ==
  IF w.mon.g_data_monitor_running = 0 THEN w
  ELSE LET w1 == IF w.mon.g_restore_timeout_id > 0
                   THEN [g_source_remove(w, w.mon.g_restore_timeout_id)
                           EXCEPT !.mon.g_restore_timeout_id = 0]
                   ELSE w
           w2 == unsubscribe_data_monitor_signals(w1)
       IN [w2 EXCEPT !.mon.g_ofono_monitor_watch_id = 0,
                     !.mon.g_monitor_dbus_conn = 0,
                     !.mon.g_data_monitor_running = 0,
                     !.pending = FALSE]

\* ofono_set_data_status(active): SetProperty("Active") on the internet
\* context, then the monitor is started or stopped to match.  callOk says
\* whether the modem accepts the call.  Result: <<return value, world>>.
ofono_set_data_status(w, active, callOk, connOk) ==
  LET path == find_internet_context_path(w)
      w1 == [w EXCEPT !.issued = Append(@, [path |-> path, value |-> active])]
  IN IF ~w.up \/ ~callOk THEN <<-3, w1>>
     ELSE LET w2 == [w1 EXCEPT !.active[path] = (active # 0)]
          IN IF active # 0
               THEN <<0, IF w2.mon.g_data_monitor_running = 0
                           THEN ofono_start_data_monitor(w2, connOk) ELSE w2>>
               ELSE <<0, IF w2.mon.g_data_monitor_running # 0
                           THEN ofono_stop_data_monitor(w2) ELSE w2>>

\* A variant of the restore check that treats an inactive context as connected.
check_and_restore_never_activates(w, callOk, connOk) ==
  IF ~w.up THEN <<"net_status_failed", w>>
  ELSE IF w.net \notin {"registered", "roaming"} THEN <<"waiting", w>>
  ELSE IF w.apn = "" THEN <<"apn_missing", w>>
  ELSE <<"connected", w>>

\* ofono_check_and_restore_data(): registration, then the internet context's
\* APN and Active, then ofono_set_data_status(1) when it is inactive.
\* Result: <<what the function reports, world>>.
ofono_check_and_restore_data(w, callOk, connOk) ==
  IF ~w.up THEN <<"net_status_failed", w>>
  ELSE IF w.net \notin {"registered", "roaming"} THEN <<"waiting", w>>
  ELSE IF w.apn = "" THEN <<"apn_missing", w>>
  ELSE IF w.active[find_internet_context_path(w)] THEN <<"connected", w>>
  ELSE LET r == ofono_set_data_status(w, 1, callOk, connOk)
       IN IF r[1] = 0 THEN <<"restored", r[2]>> ELSE <<"activate_failed", r[2]>>

\* A variant of the signal handler that arms a new timer without cancelling
\* the one that is pending.
on_context_property_changed_no_cancel(w, active) ==
  IF active THEN w
  ELSE [w EXCEPT !.timers = @ \cup {[id |-> w.nextId, due |-> now + RESTORE_DELAY]},
                 !.mon.g_restore_timeout_id = w.nextId,
                 !.nextId = @ + 1]

\* on_context_property_changed() for the property "Active": on false, cancel
\* the pending restore timer and arm a new one RESTORE_DELAY from now.
on_context_property_changed(w, active) ==
  IF active THEN w
  ELSE LET w1 == IF w.mon.g_restore_timeout_id > 0
                   THEN g_source_remove(w, w.mon.g_restore_timeout_id) ELSE w
       IN [w1 EXCEPT !.timers = @ \cup {[id |-> w.nextId, due |-> now + RESTORE_DELAY]},
                     !.mon.g_restore_timeout_id = w.nextId,
                     !.nextId = @ + 1]

\* The handler's result becomes the next state.
Commit(w) ==
  /\ ofonoUp' = w.up
  /\ netStatus' = w.net
  /\ ctxApn' = w.apn
  /\ ctxActive' = w.active
  /\ mon' = w.mon
  /\ timers' = w.timers
  /\ nextSrcId' = w.nextId
  /\ watchPending' = w.pending

\* on_ofono_monitor_appeared(): subscribe, then check the bearer at once.
\* (The monitor's callbacks run while the monitor is running, so the
\* ofono_start_data_monitor call inside ofono_set_data_status is not reached
\* from them and its bus connection outcome is immaterial: TRUE.)
on_ofono_monitor_appeared(w, callOk) ==
  ofono_check_and_restore_data(subscribe_data_monitor_signals(w), callOk, TRUE)[2]

\* on_ofono_monitor_vanished(): unsubscribe; the restore timer is left alone.
on_ofono_monitor_vanished(w) == unsubscribe_data_monitor_signals(w)

\* The restore of a dropped internet bearer is owed in w: the monitor runs, the
\* daemon is up, the modem is registered, the APN is set, the bearer is down.
RestoreOwed(w) ==
  /\ w.mon.g_data_monitor_running # 0
  /\ w.up
  /\ w.net \in {"registered", "roaming"}
  /\ w.apn # ""
  /\ ~w.active[DEFAULT_CONTEXT_PATH]

\* Bookkeeping of a step that neither handles an Active=false event nor runs
\* the restore timer: a cancelled timer ends the burst.
Bookkeep(w) ==
  /\ burstEvents' = IF w.timers = {} /\ timers # {} THEN 0 ELSE burstEvents
  /\ burstRuns' = IF w.timers = {} /\ timers # {} THEN 0 ELSE burstRuns
  /\ oblAt' = IF RestoreOwed(w) THEN oblAt ELSE -1
  /\ UNCHANGED <<evLast, lastRun>>

\* One second passes; a timeout source that is due is dispatched first.
Tick ==
  /\ UNCHANGED notData
  /\ now < MaxTime
  /\ \A s \in timers : s.due > now
  /\ now' = now + 1
  /\ UNCHANGED <<ofonoUp, netStatus, ctxApn, ctxActive, mon, timers, nextSrcId,
                 watchPending, burstEvents, burstRuns, evLast, oblAt, lastRun>>

\* The daemon changes Active of context c to v and emits PropertyChanged;
\* on_context_property_changed runs when the monitor is subscribed.
ContextChanged(c, v) ==
  /\ UNCHANGED notData
  /\ ofonoUp
  /\ ctxActive[c] # v
  /\ LET w0 == [World EXCEPT !.active[c] = v]
         handled == mon.g_context_signal_id # 0
         w1 == IF handled THEN on_context_property_changed(w0, v) ELSE w0
         armed == handled /\ ~v
     IN /\ armed => nextSrcId <= MaxArm
        /\ Commit(w1)
        /\ burstEvents' = IF ~armed THEN burstEvents
                          ELSE IF timers = {} THEN 1 ELSE burstEvents + 1
        /\ burstRuns' = IF armed /\ timers = {} THEN 0 ELSE burstRuns
        /\ evLast' = IF armed THEN now ELSE evLast
        /\ oblAt' = IF ~RestoreOwed(w1) THEN -1
                    ELSE IF armed /\ ctxType[c] = "internet" /\ oblAt = -1 THEN now
                    ELSE oblAt
  /\ UNCHANGED <<now, lastRun>>

\* The main loop dispatches the due timeout source s: delayed_restore_data.
\* The source is destroyed because the callback returns G_SOURCE_REMOVE.
TimerFire(s, callOk) ==
  /\ UNCHANGED notData
  /\ s \in timers
  /\ s.due <= now
  /\ LET w0 == [World EXCEPT !.timers = @ \ {s}, !.mon.g_restore_timeout_id = 0]
         r == ofono_check_and_restore_data(w0, callOk, TRUE)
     IN /\ Commit(r[2])
        /\ burstRuns' = Min(burstRuns + 1, 2)
        /\ lastRun' = [at |-> now, ev |-> evLast, owed |-> oblAt,
                       up |-> ofonoUp, net |-> netStatus,
                       apn |-> ctxApn, active |-> ctxActive[DEFAULT_CONTEXT_PATH],
                       result |-> r[1], issued |-> r[2].issued]
        /\ oblAt' = IF r[2].issued # <<>> \/ ~RestoreOwed(r[2]) THEN -1 ELSE oblAt
  /\ UNCHANGED <<now, burstEvents, evLast>>

\* The name watcher delivers its first notification after the watch was set up.
NameWatchNotify(callOk) ==
  /\ UNCHANGED notData
  /\ mon.g_ofono_monitor_watch_id # 0
  /\ watchPending
  /\ LET w0 == [World EXCEPT !.pending = FALSE]
         w1 == IF ofonoUp THEN on_ofono_monitor_appeared(w0, callOk)
               ELSE on_ofono_monitor_vanished(w0)
     IN Commit(w1) /\ Bookkeep(w1)
  /\ UNCHANGED now

\* The daemon leaves the bus; its contexts and registration are gone with it.
DaemonVanish ==
  /\ UNCHANGED notData
  /\ ofonoUp
  /\ LET w0 == [World EXCEPT !.up = FALSE, !.net = "searching",
                             !.active = [c \in Contexts |-> FALSE]]
         w1 == IF mon.g_ofono_monitor_watch_id # 0 /\ ~watchPending
               THEN on_ofono_monitor_vanished(w0) ELSE w0
     IN Commit(w1) /\ Bookkeep(w1)
  /\ UNCHANGED now

\* The daemon comes back on the bus.
DaemonAppear(callOk) ==
  /\ UNCHANGED notData
  /\ ~ofonoUp
  /\ LET w0 == [World EXCEPT !.up = TRUE]
         w1 == IF mon.g_ofono_monitor_watch_id # 0 /\ ~watchPending
               THEN on_ofono_monitor_appeared(w0, callOk) ELSE w0
     IN Commit(w1) /\ Bookkeep(w1)
  /\ UNCHANGED now

\* NetworkRegistration.Status changes to st; on_network_property_changed checks
\* the bearer at once when the new status is registered or roaming.
NetworkChanged(st, callOk) ==
  /\ UNCHANGED notData
  /\ ofonoUp
  /\ netStatus # st
  /\ LET w0 == [World EXCEPT !.net = st]
         w1 == IF mon.g_network_signal_id # 0 /\ st \in {"registered", "roaming"}
               THEN ofono_check_and_restore_data(w0, callOk, TRUE)[2] ELSE w0
     IN Commit(w1) /\ Bookkeep(w1)
  /\ UNCHANGED now

\* Manager.DataCard changes: on_manager_property_changed subscribes to the
\* registration signal again and checks the bearer.
DataCardChanged(callOk) ==
  /\ UNCHANGED notData
  /\ ofonoUp
  /\ mon.g_manager_signal_id # 0
  /\ LET w0 == [World EXCEPT !.mon.g_network_signal_id = 1]
         w1 == ofono_check_and_restore_data(w0, callOk, TRUE)[2]
     IN Commit(w1) /\ Bookkeep(w1)
  /\ UNCHANGED now

\* The APN of the internet context is set or cleared.
ApnChanged(a) ==
  /\ UNCHANGED notData
  /\ ofonoUp
  /\ ctxApn # a
  /\ LET w1 == [World EXCEPT !.apn = a] IN Commit(w1) /\ Bookkeep(w1)
  /\ UNCHANGED now

\* The data switch of the API: ofono_set_data_status(active).
SetDataStatus(active, callOk, connOk) ==
  /\ UNCHANGED notData
  /\ LET w1 == ofono_set_data_status(World, active, callOk, connOk)[2]
     IN Commit(w1) /\ Bookkeep(w1)
  /\ UNCHANGED now

\* ofono_start_data_monitor() called on its own.
StartDataMonitor(connOk) ==
  /\ UNCHANGED notData
  /\ LET w1 == ofono_start_data_monitor(World, connOk)
     IN Commit(w1) /\ Bookkeep(w1)
  /\ UNCHANGED now

\* ofono_stop_data_monitor() called on its own.
StopDataMonitor ==
  /\ UNCHANGED notData
  /\ LET w1 == ofono_stop_data_monitor(World)
     IN Commit(w1) /\ Bookkeep(w1)
  /\ UNCHANGED now

\* The daemon's state is any it can report; the monitor has not been started.
DataInit ==
  /\ now = 0
  /\ ofonoUp \in BOOLEAN
  /\ netStatus \in (IF ofonoUp THEN NetStatuses ELSE {"searching"})
  /\ ctxApn \in Apns
  /\ ctxActive \in (IF ofonoUp THEN [Contexts -> BOOLEAN]
                    ELSE {[c \in Contexts |-> FALSE]})
  /\ mon = MonStopped
  /\ timers = {}
  /\ nextSrcId = 1
  /\ watchPending = FALSE
  /\ burstEvents = 0
  /\ burstRuns = 0
  /\ evLast = -1
  /\ oblAt = -1
  /\ lastRun = [at |-> -1, ev |-> -1, owed |-> -1, up |-> FALSE, net |-> "searching", apn |-> "",
                active |-> FALSE, result |-> "none", issued |-> <<>>]

\* The data bearer monitor at rest, for the specifications of the other subsystems.
DataIdle ==
  /\ now = 0
  /\ ofonoUp = TRUE
  /\ netStatus = "registered"
  /\ ctxApn = "cmnet"
  /\ ctxActive = [c \in Contexts |-> TRUE]
  /\ mon = MonStopped
  /\ timers = {}
  /\ nextSrcId = 1
  /\ watchPending = FALSE
  /\ burstEvents = 0
  /\ burstRuns = 0
  /\ evLast = -1
  /\ oblAt = -1
  /\ lastRun = [at |-> -1, ev |-> -1, owed |-> -1, up |-> FALSE, net |-> "searching", apn |-> "",
                active |-> FALSE, result |-> "none", issued |-> <<>>]

DataNext ==
  \/ Tick
  \/ \E c \in Contexts, v \in BOOLEAN : ContextChanged(c, v)
  \/ \E s \in timers, callOk \in BOOLEAN : TimerFire(s, callOk)
  \/ \E callOk \in BOOLEAN : NameWatchNotify(callOk)
  \/ DaemonVanish
  \/ \E callOk \in BOOLEAN : DaemonAppear(callOk)
  \/ \E st \in NetStatuses, callOk \in BOOLEAN : NetworkChanged(st, callOk)
  \/ \E callOk \in BOOLEAN : DataCardChanged(callOk)
  \/ \E a \in Apns : ApnChanged(a)
  \/ \E active \in {0, 1}, callOk, connOk \in BOOLEAN : SetDataStatus(active, callOk, connOk)
  \/ \E connOk \in BOOLEAN : StartDataMonitor(connOk)
  \/ StopDataMonitor

(***************************************************************************)
(* SMS store: save_sms_to_db, save_sent_sms_to_db, sms_get_list, hex_decode, *)
(* sms_set_max_count, sms_set_max_sent_count  (src/src/system/usb_mode.c)  *)
(* Strings are sequences of bytes (1..255).  The database itself is not    *)
(* part of the sources at hand: INSERT, DELETE and hex() follow SQLite.    *)
(***************************************************************************)
\* #define DEFAULT_MAX_SMS_COUNT 50
DEFAULT_MAX_SMS_COUNT == 50

\* #define DEFAULT_MAX_SENT_COUNT 10
DEFAULT_MAX_SENT_COUNT == 10

\* char escaped_content[1024] in save_sms_to_db
ESCAPED_CONTENT_SIZE == 1024

\* char content[1024] in SmsMessage
SMS_CONTENT_SIZE == 1024

\* At most MaxSmsId messages arrive in one behaviour.
MaxSmsId == 12

\* At most MaxSentId messages are sent in one behaviour.
MaxSentId == 2

\* The loops below run over up to a thousand bytes; they are evaluated in
\* blocks of EvalBlock bytes to keep the evaluation's nesting shallow.
EvalBlock == 32

QUOTE == 39

\* save_sms_to_db: the quote-doubling loop
\*   for (i = 0; content[i] && j < sizeof(escaped_content) - 2; i++)
\* run over content[i..last], starting from the escaped bytes acc.
RECURSIVE EscapeChars(_, _, _, _)
EscapeChars(content, i, last, acc) ==
  IF i > last \/ Len(acc) >= ESCAPED_CONTENT_SIZE - 2 THEN acc
  ELSE EscapeChars(content, i + 1, last,
                   IF content[i] = QUOTE THEN acc \o <<QUOTE, QUOTE>>
                   ELSE Append(acc, content[i]))

RECURSIVE EscapeBlocks(_, _, _)
EscapeBlocks(content, i, acc) ==
  IF i > Len(content) \/ Len(acc) >= ESCAPED_CONTENT_SIZE - 2 THEN acc
  ELSE EscapeBlocks(content, i + EvalBlock,
                    EscapeChars(content, i, Min(i + EvalBlock - 1, Len(content)), acc))

\* The whole loop: escaped_content as handed to snprintf.
escape_content(content) == EscapeBlocks(content, 1, <<>>)

\* The text value SQLite stores for the literal 'escaped': every doubled quote
\* is one quote (a lone quote would end the literal; the loop never leaves one).
RECURSIVE UnquoteChars(_, _, _, _)
UnquoteChars(escaped, i, last, acc) ==
  IF i > last THEN <<i, acc>>
  ELSE IF escaped[i] = QUOTE /\ i < Len(escaped) /\ escaped[i + 1] = QUOTE
    THEN UnquoteChars(escaped, i + 2, last, Append(acc, QUOTE))
    ELSE UnquoteChars(escaped, i + 1, last, Append(acc, escaped[i]))

RECURSIVE UnquoteBlocks(_, _, _)
UnquoteBlocks(escaped, i, acc) ==
  IF i > Len(escaped) THEN acc
  ELSE LET r == UnquoteChars(escaped, i, Min(i + EvalBlock - 1, Len(escaped)), acc)
       IN UnquoteBlocks(escaped, r[1], r[2])

sql_literal_value(escaped) == UnquoteBlocks(escaped, 1, <<>>)

HexDigits == <<"0", "1", "2", "3", "4", "5", "6", "7",
               "8", "9", "A", "B", "C", "D", "E", "F">>

\* SQLite's hex(): two upper-case digits per byte.
hex(bytes) ==
  [i \in 1..(2 * Len(bytes)) |->
     LET b == bytes[(i + 1) \div 2]
     IN HexDigits[(IF i % 2 = 1 THEN b \div 16 ELSE b % 16) + 1]]

HexVal(ch) == CHOOSE k \in 0..15 : HexDigits[k + 1] = ch

\* hex_decode(hex, out, out_size): sscanf("%2x") on every pair of digits
\* while j < out_size - 1.
hex_decode(digits, out_size) ==
  [j \in 1..Min((Len(digits) + 1) \div 2, out_size - 1) |->
     IF 2 * j <= Len(digits)
       THEN 16 * HexVal(digits[2 * j - 1]) + HexVal(digits[2 * j])
       ELSE HexVal(digits[2 * j - 1])]

BAR == "|"

\* One line of the listing query:
\*   id || '|' || sender || '|' || hex(content) || '|' || timestamp || '|' || is_read
sms_row_line(id, sender, content) ==
  <<"i">> \o <<BAR>> \o sender \o <<BAR>> \o hex(content) \o <<BAR>> \o <<"t">>
    \o <<BAR>> \o <<"0">>

\* sms_get_list: field k (0-based) of a line split at '|'.
line_field(line, k) ==
  LET bars == {i \in 1..Len(line) : line[i] = BAR}
      barsBefore(i) == Cardinality({b \in bars : b < i})
      first == IF k = 0 THEN 1
               ELSE (CHOOSE b \in bars : barsBefore(b) = k - 1) + 1
      last == IF Cardinality(bars) > k
                THEN (CHOOSE b \in bars : barsBefore(b) = k) - 1
                ELSE Len(line)
  IN SubSeq(line, first, last)

\* sms_get_list: the content of the entry parsed from a line.
sms_list_content(line) == hex_decode(line_field(line, 2), SMS_CONTENT_SIZE)

\* Message bodies that arrive: one with quotes, a separator, a newline and a
\* multi-byte character; one that just fills the escape buffer; one that is a
\* byte longer.
BodySpecial == <<39, 124, 10, 228, 189, 160, 39>>

BodyFits == [i \in 1..(ESCAPED_CONTENT_SIZE - 2) |-> 97]

BodyLong == [i \in 1..(ESCAPED_CONTENT_SIZE - 1) |-> 97]

Bodies == {BodySpecial, BodyFits, BodyLong}

\* The Sender property of the incoming messages.
SmsSender == <<"1", "0", "0", "8", "6">>

\* save_sms_to_db: what the content column holds after
\*   INSERT INTO sms (..., content, ...) VALUES (..., '<escaped_content>', ...)
StoredContent == [b \in Bodies |-> sql_literal_value(escape_content(b))]

\* sms_get_list: the content returned for a row whose content column is c.
ListedContent ==
  [c \in {StoredContent[b] : b \in Bodies} |->
     sms_list_content(sms_row_line(0, SmsSender, c))]

\* sms_get_list(messages, n), n >= 1: the content of messages[0], the row with
\* the highest id, when that row is the one last inserted.
sms_get_list_newest == ListedContent[smsStored.content]

\* DELETE FROM t WHERE id NOT IN (SELECT id FROM t ORDER BY id DESC LIMIT n)
KeepNewest(ids, n) == {i \in ids : Cardinality({j \in ids : j > i}) < n}

\* Arguments tried for sms_set_max_count (valid: 10..150).
MaxCountInputs == {9, 10, 151}

\* Arguments tried for sms_set_max_sent_count (valid: 1..50).
MaxSentInputs == {0, 1, 51}

NoSms == [id |-> 0, content |-> <<>>]

\* on_incoming_message -> save_sms_to_db, first half: the INSERT.  insertOk
\* says whether db_execute returns 0; on failure nothing else is done.
IncomingMessage(body, insertOk) ==
  /\ UNCHANGED notSms
  /\ smsPc = "idle"
  /\ smsNextId <= MaxSmsId
  /\ IF insertOk
       THEN /\ smsIds' = smsIds \cup {smsNextId}
            /\ smsNextId' = smsNextId + 1
            /\ smsStored' = [id |-> smsNextId, content |-> StoredContent[body]]
            /\ smsDelivered' = [id |-> smsNextId, content |-> body]
            /\ smsPc' = "evict"
       ELSE UNCHANGED <<smsIds, smsNextId, smsStored, smsDelivered, smsPc>>
  /\ UNCHANGED <<sentIds, sentNextId, g_max_sms_count, g_max_sent_count, smsSendLast>>

\* save_sms_to_db, second half: the DELETE that keeps the newest g_max_sms_count rows.
EvictInbox ==
  /\ UNCHANGED notSms
  /\ smsPc = "evict"
  /\ smsIds' = KeepNewest(smsIds, g_max_sms_count)
  /\ smsPc' = "idle"
  /\ UNCHANGED <<smsNextId, sentIds, sentNextId, g_max_sms_count, g_max_sent_count,
                 smsStored, smsDelivered, smsSendLast>>

\* sms_send: SendMessage on the bus (15 s timeout; sendOk: the daemon
\* answers in time), then save_sent_sms_to_db(..., "sent"), first half.
\* The function returns -1 when the bus call fails, before any row is written.
SmsSend(sendOk, insertOk) ==
  /\ UNCHANGED notSms
  /\ smsPc = "idle"
  /\ sentNextId <= MaxSentId
  /\ IF sendOk /\ insertOk
       THEN /\ sentIds' = sentIds \cup {sentNextId}
            /\ sentNextId' = sentNextId + 1
            /\ smsPc' = "evict_sent"
       ELSE UNCHANGED <<sentIds, sentNextId, smsPc>>
  /\ smsSendLast' = [accepted |-> sendOk,
                      status |-> IF sendOk /\ insertOk THEN "sent" ELSE "none"]
  /\ UNCHANGED <<smsIds, smsNextId, g_max_sms_count, g_max_sent_count,
                 smsStored, smsDelivered>>

\* save_sent_sms_to_db, second half: the DELETE that keeps the newest
\* g_max_sent_count rows.
EvictSent ==
  /\ UNCHANGED notSms
  /\ smsPc = "evict_sent"
  /\ sentIds' = KeepNewest(sentIds, g_max_sent_count)
  /\ smsPc' = "idle"
  /\ UNCHANGED <<smsIds, smsNextId, sentNextId, g_max_sms_count, g_max_sent_count,
                 smsStored, smsDelivered, smsSendLast>>

\* sms_delete(id), tried on the oldest row.
SmsDelete(id) ==
  /\ UNCHANGED notSms
  /\ smsPc = "idle"
  /\ id \in smsIds
  /\ \A k \in smsIds : k >= id
  /\ smsIds' = smsIds \ {id}
  /\ UNCHANGED <<smsNextId, sentIds, sentNextId, g_max_sms_count, g_max_sent_count,
                 smsPc, smsStored, smsDelivered, smsSendLast>>

\* sms_delete_sent(id)
SmsDeleteSent(id) ==
  /\ UNCHANGED notSms
  /\ smsPc = "idle"
  /\ id \in sentIds
  /\ sentIds' = sentIds \ {id}
  /\ UNCHANGED <<smsIds, smsNextId, sentNextId, g_max_sms_count, g_max_sent_count,
                 smsPc, smsStored, smsDelivered, smsSendLast>>

\* sms_set_max_count(count): range check, INSERT OR REPLACE INTO sms_config,
\* and on success the new cap.  No row of sms is touched.
SmsSetMaxCount(count, writeOk) ==
  /\ UNCHANGED notSms
  /\ smsPc = "idle"
  /\ g_max_sms_count' = IF count < 10 \/ count > 150 \/ ~writeOk
                          THEN g_max_sms_count ELSE count
  /\ UNCHANGED <<smsIds, smsNextId, sentIds, sentNextId, g_max_sent_count,
                 smsPc, smsStored, smsDelivered, smsSendLast>>

\* sms_set_max_sent_count(count): as above, for the sent list.
SmsSetMaxSentCount(count, writeOk) ==
  /\ UNCHANGED notSms
  /\ smsPc = "idle"
  /\ g_max_sent_count' = IF count < 1 \/ count > 50 \/ ~writeOk
                           THEN g_max_sent_count ELSE count
  /\ UNCHANGED <<smsIds, smsNextId, sentIds, sentNextId, g_max_sms_count,
                 smsPc, smsStored, smsDelivered, smsSendLast>>

\* Empty tables and the default caps: the state after sms_init on a new database.
SmsInit ==
  /\ smsIds = {}
  /\ smsNextId = 1
  /\ sentIds = {}
  /\ sentNextId = 1
  /\ g_max_sms_count = DEFAULT_MAX_SMS_COUNT
  /\ g_max_sent_count = DEFAULT_MAX_SENT_COUNT
  /\ smsPc = "idle"
  /\ smsStored = NoSms
  /\ smsDelivered = NoSms
  /\ smsSendLast = NoRow

\* The SMS store at rest, for the specifications of the other subsystems.
SmsIdle == SmsInit

SmsNext ==
  \/ \E body \in Bodies, insertOk \in BOOLEAN : IncomingMessage(body, insertOk)
  \/ EvictInbox
  \/ \E sendOk, insertOk \in BOOLEAN : SmsSend(sendOk, insertOk)
  \/ EvictSent
  \/ \E id \in smsIds : SmsDelete(id)
  \/ \E id \in sentIds : SmsDeleteSent(id)
  \/ \E count \in MaxCountInputs, writeOk \in BOOLEAN : SmsSetMaxCount(count, writeOk)
  \/ \E count \in MaxSentInputs, writeOk \in BOOLEAN : SmsSetMaxSentCount(count, writeOk)

(***************************************************************************)
(* Webhook template substitution: send_webhook_notification_ext            *)
(* (src/src/system/usb_mode.c).  Strings are sequences of characters.      *)
(***************************************************************************)
\* char body[4096]; char temp[4096];
WEBHOOK_BODY_SIZE == 4096

\* Length of the filler that makes a value long.
FillLen == 1000

TokSender == <<"#", "{", "s", "e", "n", "d", "e", "r", "}">>

TokContent == <<"#", "{", "c", "o", "n", "t", "e", "n", "t", "}">>

TokTime == <<"#", "{", "t", "i", "m", "e", "}">>

Filler == [i \in 1..FillLen |-> "x"]

\* Webhook bodies the user can configure.
Templates ==
  {<<"p", "l", "a", "i", "n">>,
   <<"c", "=", "#", "{", "c", "o", "n", "t", "e", "n", "t", "}">>,
   <<"#", "{", "s", "e", "n", "d", "e", "r", "}", ":", "#", "{", "c", "o", "n", "t", "e", "n", "t", "}", "@", "#", "{", "t", "i", "m", "e", "}">>,
   <<"#", "{", "c", "o", "n", "t", "e", "n", "t", "}", "#", "{", "c", "o", "n", "t", "e", "n", "t", "}">>}

\* Message bodies: plain text, the content token itself, the token followed
\* or preceded by a long text, and the token of a later loop.
TplContents ==
  {<<"h", "i">>,
   TokContent,
   TokContent \o Filler,
   Filler \o TokContent,
   TokTime}

\* Sender names.
TplSenders == {<<"1", "0", "0", "8", "6">>, TokContent}

\* strftime("%Y-%m-%d %H:%M:%S"), abbreviated.
TplTime == <<"1", "2", ":", "0", "0">>

\* The token each loop looks for and the value it puts in its place.
TplToken(phase) ==
  CASE phase = "sender" -> TokSender
    [] phase = "content" -> TokContent
    [] phase = "time" -> TokTime

TplValue(msg, phase) ==
  CASE phase = "sender" -> msg.sender
    [] phase = "content" -> msg.content
    [] phase = "time" -> msg.time

TplNextPhase(phase) ==
  CASE phase = "sender" -> "content"
    [] phase = "content" -> "time"
    [] phase = "time" -> "done"

\* strstr(body, tok): the position of the first occurrence, 0 for NULL.
strstr(body, tok) ==
  LET hits == {i \in 1..(Len(body) - Len(tok) + 1) :
                 SubSeq(body, i, i + Len(tok) - 1) = tok}
  IN IF hits = {} THEN 0 ELSE CHOOSE i \in hits : \A j \in hits : i <= j

\* One pass of a loop body:
\*   *p = '\0'; snprintf(temp, sizeof(temp), "%s%s%s", body, value, p + len);
\*   strncpy(body, temp, sizeof(body) - 1);
substitute_once(body, p, tok, value) ==
  Take(SubSeq(body, 1, p - 1) \o value \o Drop(body, p - 1 + Len(tok)),
       WEBHOOK_BODY_SIZE - 1)

\* The loop condition: p = strstr(body, token); on NULL the next loop starts.
TplScan ==
  /\ UNCHANGED notTpl
  /\ tplPhase # "done"
  /\ tplP = -1
  /\ LET p == strstr(tplBody, TplToken(tplPhase))
     IN IF p = 0
          THEN tplPhase' = TplNextPhase(tplPhase) /\ tplP' = -1
          ELSE tplPhase' = tplPhase /\ tplP' = p
  /\ UNCHANGED <<tplTemplate, tplMsg, tplBody>>

\* The loop body.
TplReplace ==
  /\ UNCHANGED notTpl
  /\ tplPhase # "done"
  /\ tplP > 0
  /\ tplBody' = substitute_once(tplBody, tplP, TplToken(tplPhase),
                                TplValue(tplMsg, tplPhase))
  /\ tplP' = -1
  /\ UNCHANGED <<tplTemplate, tplMsg, tplPhase>>

\* send_webhook_notification_ext has copied the configured body into body[]
\* and is about to enter the first loop.
TplInit ==
  /\ tplTemplate \in Templates
  /\ tplMsg \in [sender : TplSenders, content : TplContents, time : {TplTime}]
  /\ tplBody = Take(tplTemplate, WEBHOOK_BODY_SIZE - 1)
  /\ tplPhase = "sender"
  /\ tplP = -1

\* No notification is being built, for the specifications of the other subsystems.
TplIdle ==
  /\ tplTemplate = <<>>
  /\ tplMsg = [sender |-> <<>>, content |-> <<>>, time |-> <<>>]
  /\ tplBody = <<>>
  /\ tplPhase = "done"
  /\ tplP = -1

TplNext == TplScan \/ TplReplace

(***************************************************************************)
(* HTTP routing: http_handler  (src/unnamed/part_001)                      *)
(*                                                                         *)
(* A URI is the tuple of its path segments: "/api/sms/7" is                *)
(* <<"api", "sms", "7">>.  A pattern is a tuple too; its segment "*" stands *)
(* for mg_match's '*', which matches any run of characters without '/'.    *)
(***************************************************************************)
mg_match(uri, pat) ==
  /\ Len(uri) = Len(pat)
  /\ \A i \in 1..Len(pat) : pat[i] = "*" \/ pat[i] = uri[i]

\* One branch of the if / else-if chain: the pattern, the method the branch
\* tests for ("" when it tests none), the handler called when the test
\* succeeds (or is absent) and the handler called otherwise.
Route(pat, on, h, other) == [pat |-> pat, on |-> on, h |-> h, other |-> other]

\* The chain, in the order of the code.
Routes == <<
  Route(<<"api", "info">>, "", "handle_info", ""),
  Route(<<"api", "at">>, "", "handle_execute_at", ""),
  Route(<<"api", "set_network">>, "", "handle_set_network", ""),
  Route(<<"api", "switch">>, "", "handle_switch", ""),
  Route(<<"api", "airplane_mode">>, "", "handle_airplane_mode", ""),
  Route(<<"api", "device_control">>, "", "handle_device_control", ""),
  Route(<<"api", "clear_cache">>, "", "handle_clear_cache", ""),
  Route(<<"api", "current_band">>, "", "handle_get_current_band", ""),
  Route(<<"api", "bands">>, "", "handle_get_bands", ""),
  Route(<<"api", "lock_bands">>, "", "handle_lock_bands", ""),
  Route(<<"api", "unlock_bands">>, "", "handle_unlock_bands", ""),
  Route(<<"api", "cells">>, "", "handle_get_cells", ""),
  Route(<<"api", "lock_cell">>, "", "handle_lock_cell", ""),
  Route(<<"api", "unlock_cell">>, "", "handle_unlock_cell", ""),
  Route(<<"api", "get", "Total">>, "", "handle_get_traffic_total", ""),
  Route(<<"api", "get", "set">>, "", "handle_get_traffic_config", ""),
  Route(<<"api", "set", "total">>, "", "handle_set_traffic_limit", ""),
  Route(<<"api", "get", "time">>, "", "handle_get_system_time", ""),
  Route(<<"api", "set", "time">>, "", "handle_set_system_time", ""),
  Route(<<"api", "get", "first-reboot">>, "", "handle_get_first_reboot", ""),
  Route(<<"api", "set", "reboot">>, "", "handle_set_reboot", ""),
  Route(<<"api", "claen", "cron">>, "", "handle_clear_cron", ""),
  Route(<<"api", "charge", "config">>, "", "handle_charge_config", ""),
  Route(<<"api", "charge", "on">>, "", "handle_charge_on", ""),
  Route(<<"api", "charge", "off">>, "", "handle_charge_off", ""),
  Route(<<"api", "sms">>, "", "handle_sms_list", ""),
  Route(<<"api", "sms", "send">>, "", "handle_sms_send", ""),
  Route(<<"api", "sms", "sent">>, "", "handle_sms_sent_list", ""),
  Route(<<"api", "sms", "sent", "*">>, "", "handle_sms_sent_delete", ""),
  Route(<<"api", "sms", "config">>, "GET", "handle_sms_config_get", "handle_sms_config_save"),
  Route(<<"api", "sms", "webhook">>, "GET", "handle_sms_webhook_get", "handle_sms_webhook_save"),
  Route(<<"api", "sms", "webhook", "test">>, "", "handle_sms_webhook_test", ""),
  Route(<<"api", "sms", "fix">>, "GET", "handle_sms_fix_get", "handle_sms_fix_set"),
  Route(<<"api", "sms", "*">>, "", "handle_sms_delete", ""),
  Route(<<"api", "update", "version">>, "", "handle_update_version", ""),
  Route(<<"api", "update", "upload">>, "", "handle_update_upload", ""),
  Route(<<"api", "update", "download">>, "", "handle_update_download", ""),
  Route(<<"api", "update", "extract">>, "", "handle_update_extract", ""),
  Route(<<"api", "update", "install">>, "", "handle_update_install", ""),
  Route(<<"api", "update", "check">>, "", "handle_update_check", ""),
  Route(<<"api", "usb", "mode">>, "GET", "handle_usb_mode_get", "handle_usb_mode_set"),
  Route(<<"api", "usb-advance">>, "", "handle_usb_advance", ""),
  Route(<<"api", "data">>, "", "handle_data_status", ""),
  Route(<<"api", "roaming">>, "", "handle_roaming_status", ""),
  Route(<<"api", "apn">>, "GET", "handle_apn_list", "handle_apn_set"),
  Route(<<"api", "shell">>, "", "handle_shell_execute", ""),
  Route(<<"api", "plugins", "all">>, "", "handle_plugin_delete_all", ""),
  Route(<<"api", "plugins">>, "GET", "handle_plugin_list", "handle_plugin_upload"),
  Route(<<"api", "plugins", "*">>, "", "handle_plugin_delete", ""),
  Route(<<"api", "scripts">>, "GET", "handle_script_list", "handle_script_upload"),
  Route(<<"api", "scripts", "*">>, "PUT", "handle_script_update", "handle_script_delete") >>

\* The "/api/" prefix test that selects the packed static files.
IsApiUri(uri) == Len(uri) >= 2 /\ uri[1] = "api"

\* The requests that are sent: static assets, routed and unrouted endpoints,
\* the two endpoints open to everybody, with every method and every kind of
\* Authorization header ("none": no header, "invalid": a bearer token the
\* token table does not hold or that has expired, "valid": a live token).
HttpUris == {
  <<"index.html">>, <<"api">>,
  <<"api", "info">>, <<"api", "at">>, <<"api", "shell">>, <<"api", "data">>,
  <<"api", "sms">>, <<"api", "sms", "config">>, <<"api", "sms", "7">>,
  <<"api", "sms", "sent", "7">>, <<"api", "usb", "mode">>,
  <<"api", "scripts", "a.sh">>, <<"api", "device_control">>,
  <<"api", "auth", "login">>, <<"api", "auth", "status">>,
  <<"api", "auth", "logout">>, <<"api", "nope">> }

HttpMethods == {"GET", "POST", "PUT", "DELETE", "OPTIONS"}

HttpTokens == {"none", "invalid", "valid"}

\* The first branch of the chain whose pattern matches, 0 when none does.
first_match(uri) ==
  LET hits == {i \in 1..Len(Routes) : mg_match(uri, Routes[i].pat)}
  IN IF hits = {} THEN 0 ELSE CHOOSE i \in hits : \A j \in hits : i <= j

\* The handler the chain calls for the request, "none" in the final else.
dispatch(uri, method) ==
  LET i == first_match(uri)
  IN IF i = 0 THEN "none"
     ELSE IF Routes[i].on = "" \/ Routes[i].on = method
       THEN Routes[i].h
       ELSE Routes[i].other

\* http_handler on MG_EV_HTTP_MSG.  packed: serve_packed_file finds the URI
\* among the embedded files and answers.  The Authorization header is part of
\* the request; nothing in http_handler reads it.
http_handler(uri, method, token, packed) ==
  /\ UNCHANGED notHttp
  /\ httpReq' = [uri |-> uri, method |-> method, token |-> token, packed |-> packed]
  /\ IF ~IsApiUri(uri) /\ packed
       THEN httpRan' = "serve_packed_file" /\ httpStatus' = 0
       ELSE LET h == dispatch(uri, method)
            IN IF h = "none"
                 THEN httpRan' = "none" /\ httpStatus' = 404
                 ELSE httpRan' = h /\ httpStatus' = 0

HttpRequest ==
  \E uri \in HttpUris, method \in HttpMethods, token \in HttpTokens, packed \in BOOLEAN :
    /\ IsApiUri(uri) => ~packed
    /\ http_handler(uri, method, token, packed)

\* The server is listening and has answered nothing yet.
HttpInit ==
  /\ httpReq = NoRow
  /\ httpRan = "none"
  /\ httpStatus = 0

HttpIdle == HttpInit

HttpNext == HttpRequest

(***************************************************************************)
(* Security questions: security_get_status, security_setup, security_verify, *)
(* security_factory_reset  (src/src/system/security.c)                     *)
(***************************************************************************)
\* Largest value of time(NULL) explored.
MaxSecTime == 3

\* strlen of a SHA-256 digest printed in hex.
SHA256_HEX_LEN == 64

\* compute_answer_hash: the digest of the answer.  Distinct answers have
\* distinct digests; every digest is SHA256_HEX_LEN characters long.
compute_answer_hash(answer) == [sha256 |-> answer, len |-> SHA256_HEX_LEN]

SecQuestions == {"", "pet", "city"}

SecAnswers == {"", "rex", "oslo"}

SecRequests == [question1 : SecQuestions \ {"city"}, answer1 : SecAnswers \ {"oslo"},
                question2 : SecQuestions \ {"pet"}, answer2 : SecAnswers \ {"rex"}]

\* security_get_status: is_set.  queryOk: db_query_string returns 0; when it
\* does not, or returns no row, the status says that nothing is set.
security_get_status(row, queryOk) ==
  IF queryOk /\ row # NoRow
    THEN IF row.answer1_hash.len = SHA256_HEX_LEN THEN 1 ELSE 0
    ELSE 0

\* security_setup: <<return value, row afterwards>>.  execOk: db_execute
\* returns 0.  The ICCID is recorded only and has no part in the outcome.
security_setup(row, req, t, queryOk, execOk) ==
  IF req.question1 = "" \/ req.answer1 = "" \/ req.question2 = "" \/ req.answer2 = ""
    THEN <<-2, row>>
  ELSE IF security_get_status(row, queryOk) = 1
    THEN <<-1, row>>
  ELSE IF ~execOk
    THEN <<-2, row>>
  ELSE <<0, [question1 |-> req.question1, question2 |-> req.question2,
             answer1_hash |-> compute_answer_hash(req.answer1),
             answer2_hash |-> compute_answer_hash(req.answer2),
             created_at |-> t]>>

\* security_verify: the return value.  confirm: the request carries
\* SECURITY_CONFIRM_TEXT.
security_verify(row, answer1, answer2, confirm, queryOk) ==
  IF ~confirm THEN -2
  ELSE IF ~queryOk \/ row = NoRow THEN -1
  ELSE IF row.answer1_hash.len # SHA256_HEX_LEN \/ row.answer2_hash.len # SHA256_HEX_LEN THEN -1
  ELSE IF compute_answer_hash(answer1) # row.answer1_hash
          \/ compute_answer_hash(answer2) # row.answer2_hash THEN -1
  ELSE 0

\* A setup call.  secReq.later tells whether a setup had succeeded before.
SecuritySetup(req, queryOk, execOk) ==
  /\ UNCHANGED notSec
  /\ LET r == security_setup(secRow, req, secNow, queryOk, execOk)
     IN /\ secRc' = r[1]
        /\ secRow' = r[2]
        /\ secFirst' = IF secFirst = NoRow /\ r[1] = 0 THEN r[2] ELSE secFirst
  /\ secReq' = [req |-> req, later |-> secFirst # NoRow]
  /\ UNCHANGED secNow

\* security_factory_reset: after a successful verification the table is
\* emptied (DELETE FROM security_questions, unless db_execute fails) and the
\* system reboots; the questions may then be set anew.
SecurityFactoryReset(answer1, answer2, confirm, queryOk, execOk) ==
  /\ UNCHANGED notSec
  /\ security_verify(secRow, answer1, answer2, confirm, queryOk) = 0
  /\ secRow' = IF execOk THEN NoRow ELSE secRow
  /\ secFirst' = IF execOk THEN NoRow ELSE secFirst
  /\ secReq' = IF execOk THEN NoRow ELSE secReq
  /\ secRc' = IF execOk THEN 1 ELSE secRc
  /\ UNCHANGED secNow

\* Time passes.
SecTick ==
  /\ UNCHANGED notSec
  /\ secNow < MaxSecTime
  /\ secNow' = secNow + 1
  /\ UNCHANGED <<secRow, secReq, secRc, secFirst>>

SecSetup ==
  \E req \in SecRequests, queryOk \in BOOLEAN, execOk \in BOOLEAN :
    SecuritySetup(req, queryOk, execOk)

SecFactoryReset ==
  \E a1 \in SecAnswers, a2 \in SecAnswers, confirm \in BOOLEAN,
     queryOk \in BOOLEAN, execOk \in BOOLEAN :
    SecurityFactoryReset(a1, a2, confirm, queryOk, execOk)

\* security_init has created the empty table.
SecInit ==
  /\ secRow = NoRow
  /\ secNow = 0
  /\ secReq = NoRow
  /\ secRc = 1
  /\ secFirst = NoRow

SecIdle == SecInit

SecNext == SecSetup \/ SecFactoryReset \/ SecTick

(***************************************************************************)
(* IPv6 forwarder configuration: load_ipv6_proxy_config, setup_send_timer, *)
(* ipv6_proxy_get_config, ipv6_proxy_set_config  (src/src/system/ofono.h)  *)
(***************************************************************************)
\* send_interval of the configuration used when no row can be read, in minutes.
DEFAULT_SEND_INTERVAL == 60

\* The configurations a caller passes to ipv6_proxy_set_config.  The three
\* webhook strings are treated alike; webhook_url stands for them.
Ip6Configs == [enabled : {0, 1}, auto_start : {0, 1}, send_enabled : {0, 1},
               send_interval : {0, 5}, webhook_url : {"", "http://h/x"}]

\* The configuration load_ipv6_proxy_config builds when it reads no row.
Ip6DefaultConfig ==
  [enabled |-> 0, auto_start |-> 0, send_enabled |-> 0,
   send_interval |-> DEFAULT_SEND_INTERVAL, webhook_url |-> ""]

\* setup_send_timer: the period in seconds of the timer that is armed
\* afterwards, 0 when none is.
setup_send_timer(config) ==
  IF config.send_enabled = 0 \/ config.send_interval <= 0
    THEN 0
    ELSE config.send_interval * 60

\* final_enabled as the caller supplied it.
final_enabled_as_given(config) == config.enabled

\* final_enabled: auto_start forces the service to be enabled.
final_enabled(config) == IF config.auto_start # 0 THEN 1 ELSE config.enabled

\* ipv6_proxy_set_config.  execOk: db_execute returns 0.
ipv6_proxy_set_config(config, execOk) ==
  /\ UNCHANGED notIp6
  /\ IF ~execOk
       THEN /\ ip6Rc' = -1
            /\ UNCHANGED <<ip6Row, g_current_config, g_send_timer, ip6Saved, ip6Filled>>
       ELSE /\ ip6Rc' = 0
            /\ ip6Row' = [config EXCEPT !.enabled = final_enabled(config)]
            /\ g_current_config' = [config EXCEPT !.enabled = final_enabled(config)]
            /\ g_send_timer' = setup_send_timer(g_current_config')
            /\ ip6Saved' = config
            /\ ip6Filled' = "saved"
  /\ UNCHANGED ip6Read

\* ipv6_proxy_get_config: a copy of the configuration in memory.
ipv6_proxy_get_config ==
  /\ UNCHANGED notIp6
  /\ ip6Read' = [config |-> g_current_config, filled |-> ip6Filled, saved |-> ip6Saved]
  /\ UNCHANGED <<ip6Row, g_current_config, g_send_timer, ip6Saved, ip6Rc, ip6Filled>>

\* The process starts anew: ipv6_proxy_init calls load_ipv6_proxy_config and
\* setup_send_timer.  queryOk: db_query_rows returns 0.
ipv6_proxy_init(queryOk) ==
  /\ UNCHANGED notIp6
  /\ IF queryOk /\ ip6Row # NoRow
       THEN g_current_config' = ip6Row /\ ip6Filled' = "row"
       ELSE g_current_config' = Ip6DefaultConfig /\ ip6Filled' = "default"
  /\ g_send_timer' = setup_send_timer(g_current_config')
  /\ ip6Rc' = 1
  /\ ip6Read' = NoRow
  /\ UNCHANGED <<ip6Row, ip6Saved>>

Ip6SetConfig == \E config \in Ip6Configs, execOk \in BOOLEAN : ipv6_proxy_set_config(config, execOk)

Ip6GetConfig == ipv6_proxy_get_config

Ip6Restart == \E queryOk \in BOOLEAN : ipv6_proxy_init(queryOk)

\* ipv6_proxy_init has run on an empty table.
Ip6Init ==
  /\ ip6Row = NoRow
  /\ g_current_config = Ip6DefaultConfig
  /\ g_send_timer = 0
  /\ ip6Saved = NoRow
  /\ ip6Rc = 1
  /\ ip6Read = NoRow
  /\ ip6Filled = "default"

Ip6Idle == Ip6Init

Ip6Next == Ip6SetConfig \/ Ip6GetConfig \/ Ip6Restart

(***************************************************************************)
(* USB mode files: read_mode_from_file, write_mode_to_file, usb_mode_get,  *)
(* usb_mode_set  (src/src/system/usb_mode.c)                               *)
(*                                                                         *)
(* A file is "absent", "unreadable" (fopen or fscanf fails on it) or       *)
(* "holds" the mode that usb_mode_set printed into it.                     *)
(***************************************************************************)
UsbFile(state, mode) == [state |-> state, mode |-> mode]

UsbAbsent == UsbFile("absent", 0)

USB_MODE_CDC_NCM == 1

USB_MODE_RNDIS == 3

UsbModes == USB_MODE_CDC_NCM..USB_MODE_RNDIS

UsbFiles == {UsbAbsent, UsbFile("unreadable", 0)} \cup {UsbFile("holds", m) : m \in UsbModes}

\* The modes a caller asks for: the valid ones and one on either side.
UsbModeInputs == (USB_MODE_CDC_NCM - 1)..(USB_MODE_RNDIS + 1)

\* read_mode_from_file: the integer in the file, -1 when none can be read.
read_mode_from_file(file) == IF file.state = "holds" THEN file.mode ELSE -1

\* usb_mode_get asking the persistent file first.
usb_mode_get_cfg_first(tmp, cfg) ==
  LET mode == read_mode_from_file(cfg)
  IN IF mode > 0 THEN <<mode, "cfg">> ELSE <<read_mode_from_file(tmp), "tmp">>

\* usb_mode_get: <<mode, the file it was read from>>.
usb_mode_get(tmp, cfg) ==
  LET mode == read_mode_from_file(tmp)
  IN IF mode > 0 THEN <<mode, "tmp">> ELSE <<read_mode_from_file(cfg), "cfg">>

UsbModeGet ==
  /\ UNCHANGED notUsb
  /\ LET r == usb_mode_get(usbTmp, usbCfg)
     IN usbGot' = [mode |-> r[1], from |-> r[2], tmp |-> usbTmp, cfg |-> usbCfg]
  /\ UNCHANGED <<usbTmp, usbCfg, usbSetRc>>

\* usb_mode_set.  openOk: fopen(path, "w") succeeds in write_mode_to_file.
usb_mode_set(mode, permanent, openOk) ==
  /\ UNCHANGED notUsb
  /\ IF mode < USB_MODE_CDC_NCM \/ mode > USB_MODE_RNDIS \/ ~openOk
       THEN usbSetRc' = -1 /\ UNCHANGED <<usbTmp, usbCfg>>
       ELSE /\ usbSetRc' = 0
            /\ IF permanent
                 THEN usbCfg' = UsbFile("holds", mode) /\ usbTmp' = UsbAbsent
                 ELSE usbTmp' = UsbFile("holds", mode) /\ usbCfg' = usbCfg
  /\ UNCHANGED usbGot

UsbModeSet ==
  \E mode \in UsbModeInputs, permanent \in BOOLEAN, openOk \in BOOLEAN :
    usb_mode_set(mode, permanent, openOk)

\* The files as the device finds them when the program starts.
UsbInit ==
  /\ usbTmp \in UsbFiles
  /\ usbCfg \in UsbFiles
  /\ usbGot = NoRow
  /\ usbSetRc = 1

UsbIdle ==
  /\ usbTmp = UsbAbsent
  /\ usbCfg = UsbAbsent
  /\ usbGot = NoRow
  /\ usbSetRc = 1

UsbNext == UsbModeGet \/ UsbModeSet

(***************************************************************************)
(* USB hot switch: handle_usb_advance, usb_mode_switch_advanced            *)
(* (src/src/system/usb_mode.c), answered from the loop of http_server_run  *)
(* (src/unnamed/part_001)                                                  *)
(***************************************************************************)
DEFAULT_UDC == "29100000.dwc3"

\* The functions field of usb_mode_configs[mode].
usb_mode_functions(mode) ==
  CASE mode = 1 -> "ncm.gs0"
    [] mode = 2 -> "ecm.gs0"
    [] mode = 3 -> "rndis.gs4"

\* The link names of create_multi_function_links.
FunctionLinks == {"f1", "f2", "f3", "f4", "f5", "f6", "f7", "f8", "f9"}

\* The steps of usb_mode_switch_advanced with the links created first.
UsbSwitchStepsLinksFirst == <<
  "get_udc_name", "create_function_dir", "create_gser_functions",
  "create_multi_function_links", "start_adbd", "stop_adbd", "detach_udc",
  "remove_function_links", "remove_cdc_functions", "set_pamu3_protocol",
  "set_max_dl_pkts", "set_vid_pid", "set_configuration", "set_mac",
  "wait_for_functionfs", "set_log_transport", "attach_udc", "wait_enumeration",
  "configure_usb_network" >>

\* The steps of usb_mode_switch_advanced, in the order of its statements.
UsbSwitchSteps == <<
  "get_udc_name", "stop_adbd", "detach_udc", "remove_function_links",
  "remove_cdc_functions", "set_pamu3_protocol", "set_max_dl_pkts", "set_vid_pid",
  "set_configuration", "create_function_dir", "create_gser_functions", "set_mac",
  "create_multi_function_links", "start_adbd", "wait_for_functionfs",
  "set_log_transport", "attach_udc", "wait_enumeration", "configure_usb_network" >>

\* get_udc_name: the first entry of /sys/class/udc, DEFAULT_UDC when there is none.
get_udc_name(class) == IF class # "" THEN class ELSE DEFAULT_UDC

\* What one step does to the gadget.  ok: the call the step depends on
\* succeeds (mkdir in create_function_dir, symlink of f1); restOk: the
\* symlinks of f2..f9, whose results are not looked at, succeed.
switch_step(g, step, mode, name, restOk) ==
  CASE step = "stop_adbd" -> [g EXCEPT !.adbd = FALSE]
    [] step = "detach_udc" -> [g EXCEPT !.udc = "none", !.net = FALSE]
    [] step = "remove_function_links" -> [g EXCEPT !.links = {}]
    [] step = "remove_cdc_functions" -> [g EXCEPT !.funcs = {}]
    [] step = "set_vid_pid" -> [g EXCEPT !.mode = mode]
    [] step = "create_function_dir" ->
         [g EXCEPT !.funcs = @ \cup {usb_mode_functions(mode)}]
    [] step = "create_multi_function_links" ->
         [g EXCEPT !.links = IF restOk THEN FunctionLinks ELSE {"f1"}]
    [] step = "start_adbd" -> [g EXCEPT !.adbd = TRUE]
    [] step = "attach_udc" -> [g EXCEPT !.udc = name]
    [] step = "configure_usb_network" -> [g EXCEPT !.net = TRUE]
    [] OTHER -> g

\* The value a failing step makes usb_mode_switch_advanced return, 0 when the
\* step's failure is not looked at.
switch_step_error(step) ==
  CASE step = "create_function_dir" -> -2
    [] step = "create_multi_function_links" -> -3
    [] OTHER -> 0

\* handle_usb_advance up to the call of usb_mode_switch_advanced.  Every
\* reply (HTTP_OK, the 405, the answer to OPTIONS) is appended to the
\* connection's send buffer by mg_http_reply; the buffer is written to the
\* socket by mg_mgr_poll, which runs in the same thread once the handler has
\* returned.
UsbAdvance(method, hasMode, mode) ==
  /\ UNCHANGED notUsbSw
  /\ swPc = 0
  /\ connSend # "queued"
  /\ connSend' = "queued"
  /\ IF method = "POST" /\ hasMode /\ mode >= 1 /\ mode <= 3
       THEN /\ connReply' = "switching"
            /\ swPc' = 1
            /\ swLog' = <<>>
            /\ swMode' = mode
       ELSE /\ connReply' = (CASE method = "OPTIONS" -> "options"
                               [] method # "POST" -> "405"
                               [] OTHER -> "error")
            /\ UNCHANGED <<swPc, swLog, swMode>>
  /\ UNCHANGED <<udc_name, swRet, udcClass, gadget>>

\* One step of usb_mode_switch_advanced; after the last one, or after a step
\* whose failure ends the switch, the function and then the handler return.
SwitchStep(ok, restOk) ==
  /\ UNCHANGED notUsbSw
  /\ swPc # 0
  /\ LET step == UsbSwitchSteps[swPc]
         name == IF step = "get_udc_name" THEN get_udc_name(udcClass) ELSE udc_name
     IN /\ udc_name' = name
        /\ swLog' = Append(swLog, step)
        /\ IF ~ok /\ switch_step_error(step) # 0
             THEN /\ swRet' = switch_step_error(step)
                  /\ swPc' = 0
                  /\ UNCHANGED gadget
             ELSE /\ gadget' = switch_step(gadget, step, swMode, name, restOk)
                  /\ swPc' = IF swPc = Len(UsbSwitchSteps) THEN 0 ELSE swPc + 1
                  /\ swRet' = IF swPc = Len(UsbSwitchSteps) THEN 0 ELSE swRet
  /\ UNCHANGED <<swMode, udcClass, connSend, connReply>>

\* mg_mgr_poll, called from http_server_run between two handlers: the send
\* buffer is written to the socket.
MgPollWrite ==
  /\ UNCHANGED notUsbSw
  /\ swPc = 0
  /\ connSend = "queued"
  /\ connSend' = "sent"
  /\ UNCHANGED <<swPc, swLog, swMode, udc_name, swRet, udcClass, gadget, connReply>>

UsbAdvanceRequest ==
  \E method \in {"POST", "GET", "OPTIONS"}, hasMode \in BOOLEAN, mode \in 0..4 :
    UsbAdvance(method, hasMode, mode)

UsbSwitchStep == \E ok \in BOOLEAN, restOk \in BOOLEAN : SwitchStep(ok, restOk)

\* The gadget as the boot scripts set it up; no request has arrived.
UsbSwIdle ==
  /\ swPc = 0
  /\ swLog = <<>>
  /\ swMode = 0
  /\ udc_name = ""
  /\ swRet = 1
  /\ udcClass = DEFAULT_UDC
  /\ gadget = [udc |-> DEFAULT_UDC, adbd |-> TRUE, links |-> FunctionLinks,
               funcs |-> {usb_mode_functions(1)}, mode |-> 1, net |-> TRUE]
  /\ connSend = "empty"
  /\ connReply = "none"

UsbSwInit ==
  /\ swPc = 0
  /\ swLog = <<>>
  /\ swMode = 0
  /\ udc_name = ""
  /\ swRet = 1
  /\ udcClass \in {DEFAULT_UDC, "musb-hdrc", ""}
  /\ gadget = [udc |-> get_udc_name(udcClass), adbd |-> TRUE, links |-> FunctionLinks,
               funcs |-> {usb_mode_functions(1)}, mode |-> 1, net |-> TRUE]
  /\ connSend = "empty"
  /\ connReply = "none"

UsbSwNext == UsbAdvanceRequest \/ UsbSwitchStep \/ MgPollWrite

(***************************************************************************)
(* IPv6 forwarder service: ipv6_proxy_start, ipv6_proxy_stop,              *)
(* ipv6_proxy_rule_update  (src/src/system/ofono.h)                        *)
(***************************************************************************)
\* Number of pids the model lets the service fork.
MaxPid == 2

PxRuleIds == {1, 2}

\* ipv6_port of the rules.
PxPort(id) == 8000 + id

\* The elements of a set of integers in ascending order.
SortedSeq(S) ==
  [i \in 1..Cardinality(S) |-> CHOOSE x \in S : Cardinality({y \in S : y < x}) = i - 1]

\* ipv6_proxy_rule_list followed by the filter `rules[i].enabled`: the ids of
\* the enabled rules, ORDER BY id.  listOk: db_query_string returns 0.
enabled_rules(rules, listOk) ==
  IF listOk THEN SortedSeq({id \in DOMAIN rules : rules[id].enabled}) ELSE <<>>

\* ipv6_proxy_start.  forked: the rules for which fork() succeeds.
ipv6_proxy_start(listOk, forked) ==
  /\ UNCHANGED notPx
  /\ pxPc = "idle"
  /\ g_service_running = 0
  /\ listOk /\ DOMAIN pxRules # {}
  /\ LET ids == SortedSeq({id \in DOMAIN pxRules : pxRules[id].enabled /\ id \in forked})
         first == Cardinality(DOMAIN pxProcs) + 1
     IN /\ first + Len(ids) - 1 <= MaxPid
        /\ g_rule_slots' = [k \in 1..Len(ids) |-> [pid |-> first + k - 1, id |-> ids[k]]]
        /\ pxProcs' = [p \in 1..(first + Len(ids) - 1) |->
                         IF p < first THEN pxProcs[p] ELSE "running"]
        /\ pxFw' = pxFw \cup {PxPort(ids[k]) : k \in 1..Len(ids)}
  /\ g_service_running' = 1
  /\ UNCHANGED <<pxRules, pxPc, pxI, pxKilledAt, pxHandlers>>

\* ipv6_proxy_stop up to the kill loop: the firewall rules of the rules that
\* are enabled now are removed.
ipv6_proxy_stop_begin(listOk) ==
  /\ UNCHANGED notPx
  /\ pxPc = "idle"
  /\ ~(g_service_running = 0 /\ Len(g_rule_slots) = 0)
  /\ LET ids == enabled_rules(pxRules, listOk)
     IN pxFw' = pxFw \ {PxPort(ids[k]) : k \in 1..Len(ids)}
  /\ pxPc' = "kill"
  /\ pxI' = 1
  /\ UNCHANGED <<pxRules, pxProcs, g_rule_slots, g_service_running, pxKilledAt, pxHandlers>>

\* The state of a child after kill(pid, SIGKILL); waitpid(pid, NULL, WNOHANG).
\* exited: the child has terminated by the time waitpid looks at it.
kill_and_wait(state, exited) ==
  IF state = "reaped" THEN "reaped"
  ELSE IF state = "zombie" \/ exited THEN "reaped"
  ELSE "dying"

\* One pass of the kill loop.
ipv6_proxy_stop_kill(exited) ==
  /\ UNCHANGED notPx
  /\ pxPc = "kill"
  /\ pxI <= Len(g_rule_slots)
  /\ LET pid == g_rule_slots[pxI].pid
     IN /\ pxProcs' = [pxProcs EXCEPT ![pid] = kill_and_wait(@, exited)]
        /\ pxKilledAt' = [pid |-> pid,
                           open |-> {PxPort(id) : id \in {r \in PxRuleIds : pxRules[r].enabled}} \cap pxFw]
  /\ pxI' = pxI + 1
  /\ UNCHANGED <<pxRules, pxFw, g_rule_slots, g_service_running, pxPc, pxHandlers>>

\* The end of ipv6_proxy_stop: the slots are cleared.
ipv6_proxy_stop_clear ==
  /\ UNCHANGED notPx
  /\ pxPc = "kill"
  /\ pxI > Len(g_rule_slots)
  /\ g_rule_slots' = <<>>
  /\ g_service_running' = 0
  /\ pxPc' = "idle"
  /\ UNCHANGED <<pxRules, pxFw, pxProcs, pxI, pxKilledAt, pxHandlers>>

\* The kernel ends a child that was sent SIGKILL; it stays a zombie until
\* its parent waits for it.
PxChildExit(pid) ==
  /\ UNCHANGED notPx
  /\ pid \in DOMAIN pxProcs
  /\ pxProcs[pid] = "dying"
  /\ pxProcs' = [pxProcs EXCEPT ![pid] = "zombie"]
  /\ UNCHANGED <<pxRules, pxFw, g_rule_slots, g_service_running, pxPc, pxI, pxKilledAt, pxHandlers>>

\* ipv6_proxy_rule_update: a rule is enabled or disabled; the running
\* service is not touched.
ipv6_proxy_rule_update(id, enabled) ==
  /\ UNCHANGED notPx
  /\ pxPc = "idle"
  /\ pxRules' = [pxRules EXCEPT ![id].enabled = enabled]
  /\ UNCHANGED <<pxFw, pxProcs, g_rule_slots, g_service_running, pxPc, pxI, pxKilledAt, pxHandlers>>

\* proxy_rule_process, one pass of the accept loop: the worker forks a child
\* that runs proxy_make_tunnel for the connection.
PxAccept(pid) ==
  /\ UNCHANGED notPx
  /\ pid \in DOMAIN pxProcs
  /\ pxProcs[pid] = "running"
  /\ pid \notin pxHandlers
  /\ pxHandlers' = pxHandlers \cup {pid}
  /\ UNCHANGED <<pxRules, pxFw, pxProcs, g_rule_slots, g_service_running, pxPc, pxI, pxKilledAt>>

\* The connection ends: proxy_make_tunnel returns and the handler exits.
PxHandlerExit(pid) ==
  /\ UNCHANGED notPx
  /\ pid \in pxHandlers
  /\ pxHandlers' = pxHandlers \ {pid}
  /\ UNCHANGED <<pxRules, pxFw, pxProcs, g_rule_slots, g_service_running, pxPc, pxI, pxKilledAt>>

\* proxy_rule_process leaves by itself: exit(1) when resolving, socket, bind
\* or listen fails, exit(0) when select or accept fails.  The parent has no
\* SIGCHLD handler, so the worker stays a zombie.
PxWorkerExit(pid) ==
  /\ UNCHANGED notPx
  /\ pid \in DOMAIN pxProcs
  /\ pxProcs[pid] = "running"
  /\ pxProcs' = [pxProcs EXCEPT ![pid] = "zombie"]
  /\ UNCHANGED <<pxRules, pxFw, g_rule_slots, g_service_running, pxPc, pxI, pxKilledAt,
                 pxHandlers>>

PxStart == \E listOk \in BOOLEAN, forked \in SUBSET PxRuleIds : ipv6_proxy_start(listOk, forked)

PxStopBegin == \E listOk \in BOOLEAN : ipv6_proxy_stop_begin(listOk)

PxStopKill == \E exited \in BOOLEAN : ipv6_proxy_stop_kill(exited)

PxStopClear == ipv6_proxy_stop_clear

PxExit == \E pid \in 1..MaxPid : PxChildExit(pid)

PxRuleUpdate == \E id \in PxRuleIds, enabled \in BOOLEAN : ipv6_proxy_rule_update(id, enabled)

PxConnection == \E pid \in 1..MaxPid : PxAccept(pid)

PxConnectionEnd == \E pid \in 1..MaxPid : PxHandlerExit(pid)

PxWorkerLeaves == \E pid \in 1..MaxPid : PxWorkerExit(pid)

\* Two rules are configured and the service is stopped.
PxInit ==
  /\ pxRules \in [PxRuleIds -> [enabled : BOOLEAN]]
  /\ pxFw = {}
  /\ pxProcs = <<>>
  /\ g_rule_slots = <<>>
  /\ g_service_running = 0
  /\ pxPc = "idle"
  /\ pxI = 0
  /\ pxKilledAt = NoRow
  /\ pxHandlers = {}

PxIdle ==
  /\ pxRules = [id \in PxRuleIds |-> [enabled |-> FALSE]]
  /\ pxFw = {}
  /\ pxProcs = <<>>
  /\ g_rule_slots = <<>>
  /\ g_service_running = 0
  /\ pxPc = "idle"
  /\ pxI = 0
  /\ pxKilledAt = NoRow
  /\ pxHandlers = {}

PxNext ==
  \/ PxStart \/ PxStopBegin \/ PxStopKill \/ PxStopClear \/ PxExit \/ PxRuleUpdate
  \/ PxConnection \/ PxConnectionEnd \/ PxWorkerLeaves

(***************************************************************************)
(* Data watchdog: data_watchdog_thread, ofono_start_data_watchdog,         *)
(* ofono_stop_data_watchdog  (src/src/system/ofono.c)                      *)
(*                                                                         *)
(* A thread is at "test" (the while condition), in "check" (inside         *)
(* ofono_check_and_restore_data), at "for" (the condition of the wait      *)
(* loop), in "sleep" (inside sleep(1)) or has "exited".  Evaluating a      *)
(* condition takes no time; a check takes any time.                        *)
(***************************************************************************)
\* Number of threads the model lets ofono_start_data_watchdog create.
MaxWdThreads == 2

\* Largest clock value explored.
MaxWdTime == 3

WD_DEFAULT_INTERVAL == 10

\* Thread t exists and has not returned.
WdAlive(t) == t \in DOMAIN wdThreads /\ wdThreads[t].pc # "exited"

\* ofono_start_data_watchdog.  createOk: pthread_create succeeds.
ofono_start_data_watchdog(interval_secs, createOk) ==
  /\ UNCHANGED notWd
  /\ g_watchdog_running = 0
  /\ g_watchdog_interval' = IF interval_secs > 0 THEN interval_secs ELSE WD_DEFAULT_INTERVAL
  /\ IF createOk
       THEN /\ Len(wdThreads) < MaxWdThreads
            /\ g_watchdog_running' = 1
            /\ wdThreads' = Append(wdThreads, [pc |-> "test", i |-> 0, wakeAt |-> 0,
                                               stoppedAt |-> -1, late |-> FALSE])
       ELSE UNCHANGED <<g_watchdog_running, wdThreads>>
  /\ UNCHANGED wdNow

\* ofono_stop_data_watchdog: the flag is cleared.  stoppedAt notes, for
\* every thread the watchdog then had, when it was stopped.
ofono_stop_data_watchdog ==
  /\ UNCHANGED notWd
  /\ g_watchdog_running = 1
  /\ g_watchdog_running' = 0
  /\ wdThreads' = [t \in DOMAIN wdThreads |->
                     IF wdThreads[t].pc # "exited" /\ wdThreads[t].stoppedAt = -1
                       THEN [wdThreads[t] EXCEPT !.stoppedAt = wdNow]
                       ELSE wdThreads[t]]
  /\ UNCHANGED <<g_watchdog_interval, wdNow>>

\* while (g_watchdog_running): the next check begins, or the thread returns.
\* late notes a check begun after the thread's watchdog was stopped.
WdTest(t) ==
  /\ UNCHANGED notWd
  /\ WdAlive(t) /\ wdThreads[t].pc = "test"
  /\ wdThreads' = [wdThreads EXCEPT ![t] =
       IF g_watchdog_running # 0
         THEN [@ EXCEPT !.pc = "check", !.late = (@ \/ wdThreads[t].stoppedAt # -1)]
         ELSE [@ EXCEPT !.pc = "exited"]]
  /\ UNCHANGED <<g_watchdog_running, g_watchdog_interval, wdNow>>

\* ofono_check_and_restore_data returns.
WdEndCheck(t) ==
  /\ UNCHANGED notWd
  /\ WdAlive(t) /\ wdThreads[t].pc = "check"
  /\ wdThreads' = [wdThreads EXCEPT ![t] = [@ EXCEPT !.pc = "for", !.i = 0]]
  /\ UNCHANGED <<g_watchdog_running, g_watchdog_interval, wdNow>>

\* for (...; i < g_watchdog_interval && g_watchdog_running; ...) sleep(1)
WdFor(t) ==
  /\ UNCHANGED notWd
  /\ WdAlive(t) /\ wdThreads[t].pc = "for"
  /\ wdThreads' = [wdThreads EXCEPT ![t] =
       IF wdThreads[t].i < g_watchdog_interval /\ g_watchdog_running # 0
         THEN [@ EXCEPT !.pc = "sleep", !.wakeAt = wdNow + 1]
         ELSE [@ EXCEPT !.pc = "test"]]
  /\ UNCHANGED <<g_watchdog_running, g_watchdog_interval, wdNow>>

\* sleep(1) returns; i++.
WdWake(t) ==
  /\ UNCHANGED notWd
  /\ WdAlive(t) /\ wdThreads[t].pc = "sleep"
  /\ wdThreads[t].wakeAt = wdNow
  /\ wdThreads' = [wdThreads EXCEPT ![t] = [@ EXCEPT !.pc = "for", !.i = @ + 1]]
  /\ UNCHANGED <<g_watchdog_running, g_watchdog_interval, wdNow>>

\* A second passes: no thread is at a condition, no sleep is due.
WdTick ==
  /\ UNCHANGED notWd
  /\ wdNow < MaxWdTime
  /\ \A t \in DOMAIN wdThreads :
       /\ wdThreads[t].pc \notin {"test", "for"}
       /\ wdThreads[t].pc = "sleep" => wdThreads[t].wakeAt > wdNow
  /\ wdNow' = wdNow + 1
  /\ UNCHANGED <<g_watchdog_running, g_watchdog_interval, wdThreads>>

WdStart ==
  \E interval_secs \in {0, 1, 2}, createOk \in BOOLEAN :
    ofono_start_data_watchdog(interval_secs, createOk)

WdStop == ofono_stop_data_watchdog

WdThreadTest == \E t \in 1..MaxWdThreads : WdTest(t)

WdThreadEndCheck == \E t \in 1..MaxWdThreads : WdEndCheck(t)

WdThreadFor == \E t \in 1..MaxWdThreads : WdFor(t)

WdThreadWake == \E t \in 1..MaxWdThreads : WdWake(t)

\* The watchdog has not been started.
WdInit ==
  /\ g_watchdog_running = 0
  /\ g_watchdog_interval = WD_DEFAULT_INTERVAL
  /\ wdThreads = <<>>
  /\ wdNow = 0

WdIdle == WdInit

WdNext ==
  WdStart \/ WdStop \/ WdThreadTest \/ WdThreadEndCheck \/ WdThreadFor \/ WdThreadWake
    \/ WdTick

(***************************************************************************)
(* SMS webhook delivery and its in-memory log: send_webhook_notification_ext, *)
(* add_webhook_log, sms_get_webhook_logs, sms_test_webhook,                *)
(* sms_save_webhook_config  (src/src/system/usb_mode.c)                    *)
(* A response is a sequence of text pieces; strstr looks for a piece.      *)
(***************************************************************************)
\* #define MAX_WEBHOOK_LOGS 100
MAX_WEBHOOK_LOGS == 100

\* Deliveries a run makes, and the deliveries made before the run starts.
MaxWhCalls == 3

WhPrefill == 99

\* What curl writes to the pipe (2>&1): nothing, the server's answer, or text
\* that holds one of the error markers.  All are shorter than response[1024].
WhOutputs ==
  {<<>>, <<"ok">>, <<"curl:", "Connection refused">>, <<"Connection refused">>,
   <<"Could not resolve">>, <<"Connection timed out">>}

\* The texts the function itself puts in place of a response.
WhTmpFileFailed == <<"tmp file failed">>

WhPopenFailed == <<"exec curl failed">>

WhConfigs == [enabled : BOOLEAN, url : {"", "http://hook"}]

\* strstr(response, marker) != NULL, on a response made of text pieces.
response_has(response, marker) == \E i \in 1..Len(response) : response[i] = marker

\* The zero-initialised static array.
WhNoLogs ==
  [logs |-> [i \in 0..(MAX_WEBHOOK_LOGS - 1) |-> [id |-> 0, response |-> <<>>, result |-> 0]],
   count |-> 0, id |-> 0]

\* The log as one record.
WhLog ==
  [logs |-> g_webhook_logs, count |-> g_webhook_log_count, id |-> g_webhook_log_id]

\* add_webhook_log(sender, request, response, result)
add_webhook_log(L, response, result) ==
  LET idx == L.count % MAX_WEBHOOK_LOGS
  IN [logs |-> [L.logs EXCEPT ![idx] = [id |-> L.id + 1, response |-> response,
                                        result |-> result]],
      count |-> IF L.count < MAX_WEBHOOK_LOGS THEN L.count + 1 ELSE L.count,
      id |-> L.id + 1]

\* The outcome rule of send_webhook_notification_ext.
webhook_result(response) ==
  IF Len(response) > 0 /\ ~response_has(response, "curl:") THEN 1 ELSE 0

\* send_webhook_notification_ext(msg, force).  fileOk: the body file can be
\* written; pipeOk: popen succeeds; output: what the pipe delivers.
send_webhook_notification_ext(L, config, force, fileOk, pipeOk, output) ==
  IF force = 0 /\ (~config.enabled \/ config.url = "") THEN L
  ELSE IF config.url = "" THEN L
  ELSE IF ~fileOk THEN add_webhook_log(L, WhTmpFileFailed, 0)
  ELSE LET response == IF pipeOk THEN output ELSE WhPopenFailed
       IN add_webhook_log(L, response, webhook_result(response))

\* sms_get_webhook_logs(json_output, size, max_count): the entries it writes,
\* in the order it writes them (size is large enough for all of them).
sms_get_webhook_logs(L, max_count) ==
  LET mc == IF max_count <= 0 \/ max_count > MAX_WEBHOOK_LOGS THEN 20 ELSE max_count
      count == IF L.count < mc THEN L.count ELSE mc
      idx(i) == IF L.count <= MAX_WEBHOOK_LOGS THEN L.count - 1 - i
                ELSE (L.count - 1 - i) % MAX_WEBHOOK_LOGS
  IN [j \in 1..count |-> L.logs[idx(j - 1)]]

WhCommit(L) ==
  /\ g_webhook_logs' = L.logs
  /\ g_webhook_log_count' = L.count
  /\ g_webhook_log_id' = L.id

\* on_incoming_message: send_webhook_notification(&msg), i.e. force = 0.
WhIncoming(fileOk, pipeOk, output) ==
  /\ UNCHANGED notWh
  /\ whCalls < MaxWhCalls
  /\ WhCommit(send_webhook_notification_ext(WhLog, g_webhook_config, 0,
                                            fileOk, pipeOk, output))
  /\ whCalls' = whCalls + 1
  /\ UNCHANGED g_webhook_config

\* sms_test_webhook(): -1 without a URL, else a forced delivery.
WhTest(fileOk, pipeOk, output) ==
  /\ UNCHANGED notWh
  /\ whCalls < MaxWhCalls
  /\ IF g_webhook_config.url = "" THEN UNCHANGED <<g_webhook_logs, g_webhook_log_count,
                                                   g_webhook_log_id>>
     ELSE WhCommit(send_webhook_notification_ext(WhLog, g_webhook_config, 1,
                                                 fileOk, pipeOk, output))
  /\ whCalls' = whCalls + 1
  /\ UNCHANGED g_webhook_config

\* sms_save_webhook_config(config): the memory copy follows the database.
WhSaveConfig(config, execOk) ==
  /\ UNCHANGED notWh
  /\ g_webhook_config' = IF execOk THEN config ELSE g_webhook_config
  /\ UNCHANGED <<g_webhook_logs, g_webhook_log_count, g_webhook_log_id, whCalls>>

WhSmsArrives ==
  \E fileOk, pipeOk \in BOOLEAN, output \in WhOutputs : WhIncoming(fileOk, pipeOk, output)

WhTestRequest ==
  \E fileOk, pipeOk \in BOOLEAN, output \in WhOutputs : WhTest(fileOk, pipeOk, output)

WhSaveRequest == \E config \in WhConfigs, execOk \in BOOLEAN : WhSaveConfig(config, execOk)

\* The log after n <= MAX_WEBHOOK_LOGS deliveries that the server answered:
\* add_webhook_log has filled the slots 0..n-1 in turn.
WhFilled(n) ==
  [logs |-> [i \in 0..(MAX_WEBHOOK_LOGS - 1) |->
               IF i < n THEN [id |-> i + 1, response |-> <<"ok">>, result |-> 1]
               ELSE [id |-> 0, response |-> <<>>, result |-> 0]],
   count |-> n, id |-> n]

\* A fresh process, or one that has made WhPrefill answered deliveries.
WhInit ==
  /\ g_webhook_config \in WhConfigs
  /\ \E n \in {0, WhPrefill} :
       /\ g_webhook_logs = WhFilled(n).logs
       /\ g_webhook_log_count = WhFilled(n).count
       /\ g_webhook_log_id = WhFilled(n).id
  /\ whCalls = 0

WhIdle ==
  /\ g_webhook_config = [enabled |-> FALSE, url |-> ""]
  /\ g_webhook_logs = WhNoLogs.logs
  /\ g_webhook_log_count = 0
  /\ g_webhook_log_id = 0
  /\ whCalls = 0

WhNext == WhSmsArrives \/ WhTestRequest \/ WhSaveRequest

(***************************************************************************)
(* SMS engine, bus connection upkeep: sms_init, subscribe_sms_signal,      *)
(* on_ofono_appeared, on_ofono_vanished, on_dbus_connection_closed,        *)
(* sms_maintenance (src/src/system/usb_mode.c); http_server_run            *)
(* (src/unnamed/part_001)                                                  *)
(***************************************************************************)
\* if (++maintenance_counter >= 3000): loop rounds between two maintenance calls.
MAINTENANCE_ROUNDS == 3000

\* The engine's globals as one record.
MtState ==
  [init |-> g_sms_initialized, conn |-> g_sms_dbus_conn,
   sub |-> g_signal_subscription_id, watch |-> g_name_watch_id,
   avail |-> g_ofono_available, at |-> <<>>]

\* The AT command that switches the SMS fix on.
AT_CNMI_FIX == "AT+CNMI=3,2,0,1,0"

\* apply_sms_fix_on_init(): the command is sent when the stored flag is set;
\* S.at collects the commands a handler hands to execute_at.
apply_sms_fix_on_init(S, enabled) ==
  IF enabled # 0 THEN [S EXCEPT !.at = Append(@, AT_CNMI_FIX)] ELSE S

\* unsubscribe_sms_signal()
unsubscribe_sms_signal(S) == [S EXCEPT !.sub = 0]

\* subscribe_sms_signal(): nothing without a connection; else the old
\* subscription is dropped and g_dbus_connection_signal_subscribe gives a new id
\* (a failure of AddMatch is only logged).
subscribe_sms_signal(S) ==
  IF S.conn = "null" THEN S ELSE [unsubscribe_sms_signal(S) EXCEPT !.sub = 1]

\* sms_init(db_path): dbOk for db_init, connOk for g_bus_get_sync.
sms_init(S, dbOk, connOk) ==
  IF S.init # 0 THEN S
  ELSE IF ~dbOk THEN S
  ELSE IF ~connOk THEN [S EXCEPT !.conn = "null"]
  ELSE [subscribe_sms_signal(
          apply_sms_fix_on_init([S EXCEPT !.conn = "open", !.watch = 1],
                                sms_fix_enabled))
          EXCEPT !.avail = 1, !.init = 1]

\* on_ofono_appeared(): the flag is set and the signal subscribed; execute_at
\* is not called.
on_ofono_appeared(S) == subscribe_sms_signal([S EXCEPT !.avail = 1])

\* on_ofono_vanished()
on_ofono_vanished(S) == unsubscribe_sms_signal([S EXCEPT !.avail = 0])

\* on_dbus_connection_closed()
on_dbus_connection_closed(S) ==
  [S EXCEPT !.sub = 0, !.watch = 0, !.avail = 0, !.conn = "null"]

\* A variant of sms_maintenance that reconnects but leaves the subscription
\* to the name watcher.
sms_maintenance_no_subscribe(S, connOk) ==
  IF S.init = 0 THEN S
  ELSE IF S.conn = "null" \/ S.conn = "closed"
    THEN IF connOk THEN [S EXCEPT !.conn = "open"] ELSE [S EXCEPT !.conn = "null"]
  ELSE S

\* sms_maintenance(); connOk for g_bus_get_sync.
sms_maintenance(S, connOk) ==
  IF S.init = 0 THEN S
  ELSE IF S.conn = "null" \/ S.conn = "closed"
    THEN IF connOk THEN subscribe_sms_signal([S EXCEPT !.conn = "open"])
         ELSE [S EXCEPT !.conn = "null"]
  ELSE IF S.sub = 0 THEN subscribe_sms_signal(S)
  ELSE S

\* sms_send(): -1 without asking the daemon when there is no connection or
\* the daemon is flagged unavailable; else SendMessage is called.
sms_send(S) ==
  IF S.conn = "null" \/ S.avail = 0 THEN "unavailable" ELSE "SendMessage"

MtCommit(S) ==
  /\ g_sms_initialized' = S.init
  /\ g_sms_dbus_conn' = S.conn
  /\ g_signal_subscription_id' = S.sub
  /\ g_name_watch_id' = S.watch
  /\ g_ofono_available' = S.avail

\* http_server_start: sms_init("6677.db"); a failure is only logged.
MtSmsInit(dbOk) ==
  /\ UNCHANGED notMt
  /\ mtPc = "boot"
  /\ MtCommit(sms_init(MtState, dbOk, mtBusUp))
  /\ mtPc' = "run"
  /\ mtTick' = NoRow
  /\ mtAppeared' = NoRow
  /\ UNCHANGED sms_fix_enabled
  /\ UNCHANGED <<maintenance_counter, mtBusUp, mtOfonoUp>>

\* One round of the loop of http_server_run: the pending GLib events and
\* mg_mgr_poll are rounds of their own; here the counter and, every
\* MAINTENANCE_ROUNDS rounds, sms_maintenance().
MtLoopRound ==
  /\ UNCHANGED notMt
  /\ mtPc = "run"
  /\ IF maintenance_counter + 1 >= MAINTENANCE_ROUNDS
       THEN /\ maintenance_counter' = 0
            /\ MtCommit(sms_maintenance(MtState, mtBusUp))
            /\ mtTick' = [reachable |-> mtBusUp, conn |-> g_sms_dbus_conn,
                          sub |-> g_signal_subscription_id,
                          init |-> g_sms_initialized]
       ELSE /\ maintenance_counter' = maintenance_counter + 1
            /\ MtCommit(MtState)
            /\ mtTick' = NoRow
  /\ mtAppeared' = NoRow
  /\ UNCHANGED sms_fix_enabled
  /\ mtAppeared' = NoRow
  /\ UNCHANGED <<mtPc, mtBusUp, mtOfonoUp, sms_fix_enabled>>

\* The system bus goes away: an open connection is closed; the "closed"
\* signal is delivered by the main loop later.
MtBusDown ==
  /\ UNCHANGED notMt
  /\ mtBusUp
  /\ mtBusUp' = FALSE
  /\ mtOfonoUp' = FALSE
  /\ g_sms_dbus_conn' = IF g_sms_dbus_conn = "open" THEN "closed" ELSE g_sms_dbus_conn
  /\ mtTick' = NoRow
  /\ mtAppeared' = NoRow
  /\ UNCHANGED sms_fix_enabled
  /\ UNCHANGED <<g_sms_initialized, g_signal_subscription_id, g_name_watch_id,
                 g_ofono_available, maintenance_counter, mtPc>>

\* The system bus is back.
MtBusUp ==
  /\ UNCHANGED notMt
  /\ ~mtBusUp
  /\ mtBusUp' = TRUE
  /\ mtTick' = NoRow
  /\ mtAppeared' = NoRow
  /\ UNCHANGED sms_fix_enabled
  /\ UNCHANGED <<g_sms_initialized, g_sms_dbus_conn, g_signal_subscription_id,
                 g_name_watch_id, g_ofono_available, maintenance_counter, mtPc,
                 mtOfonoUp>>

\* The main loop delivers "closed" of the connection the engine holds.
MtClosed ==
  /\ UNCHANGED notMt
  /\ g_sms_dbus_conn = "closed"
  /\ MtCommit(on_dbus_connection_closed(MtState))
  /\ mtTick' = NoRow
  /\ mtAppeared' = NoRow
  /\ UNCHANGED sms_fix_enabled
  /\ UNCHANGED <<maintenance_counter, mtPc, mtBusUp, mtOfonoUp>>

\* org.ofono leaves or joins the bus; the name watch of sms_init, when it
\* is still in place on an open connection, calls the handler.
MtOfonoChange ==
  /\ UNCHANGED notMt
  /\ mtBusUp
  /\ mtOfonoUp' = ~mtOfonoUp
  /\ IF g_name_watch_id # 0 /\ g_sms_dbus_conn = "open"
       THEN IF mtOfonoUp
              THEN MtCommit(on_ofono_vanished(MtState)) /\ mtAppeared' = NoRow
              ELSE LET S == on_ofono_appeared(MtState)
                   IN /\ MtCommit(S)
                      /\ mtAppeared' = [fix |-> sms_fix_enabled, sub |-> S.sub,
                                         at |-> S.at]
       ELSE MtCommit(MtState) /\ mtAppeared' = NoRow
  /\ mtTick' = NoRow
  /\ UNCHANGED sms_fix_enabled
  /\ UNCHANGED <<maintenance_counter, mtPc, mtBusUp>>

\* The process has started; sms_init has not been called yet.
MtInit ==
  /\ g_sms_initialized = 0
  /\ g_sms_dbus_conn = "null"
  /\ g_signal_subscription_id = 0
  /\ g_name_watch_id = 0
  /\ g_ofono_available = 0
  /\ maintenance_counter = 0
  /\ mtPc = "boot"
  /\ mtBusUp \in BOOLEAN
  /\ mtOfonoUp = FALSE
  /\ mtTick = NoRow
  /\ sms_fix_enabled \in {0, 1}
  /\ mtAppeared = NoRow

MtIdle ==
  /\ g_sms_initialized = 0
  /\ g_sms_dbus_conn = "null"
  /\ g_signal_subscription_id = 0
  /\ g_name_watch_id = 0
  /\ g_ofono_available = 0
  /\ maintenance_counter = 0
  /\ mtPc = "boot"
  /\ mtBusUp = TRUE
  /\ mtOfonoUp = FALSE
  /\ mtTick = NoRow
  /\ sms_fix_enabled = 0
  /\ mtAppeared = NoRow

MtBoot == \E dbOk \in BOOLEAN : MtSmsInit(dbOk)

MtNext == MtBoot \/ MtLoopRound \/ MtBusDown \/ MtBusUp \/ MtClosed \/ MtOfonoChange

(***************************************************************************)
(* Rathole tunnel controller: rathole_generate_config, rathole_start,      *)
(* rathole_stop, rathole_get_status, rathole_clear_logs                    *)
(* (src/src/system/rathole.c).  A file is the sequence of its lines.       *)
(***************************************************************************)
\* Processes a run may spawn.
MaxRhPid == 3

RhWeb == [name |-> "web", token |-> "t1", local_addr |-> "127.0.0.1:80", enabled |-> 1]

RhSsh == [name |-> "ssh", token |-> "t2", local_addr |-> "127.0.0.1:22", enabled |-> 1]

\* The service tables tried: none, one, a disabled one, two, a disabled one first.
RhServiceLists ==
  {<<>>, <<RhWeb>>, <<[RhWeb EXCEPT !.enabled = 0]>>, <<RhWeb, RhSsh>>,
   <<[RhSsh EXCEPT !.enabled = 0], RhWeb>>}

RhServerAddrs == {"", "198.51.100.5:2333"}

\* The world rathole_start works on, as one record.
RhWorld ==
  [addr |-> rhServerAddr, services |-> rhServices, config |-> rhConfigFile,
   log |-> rhLogFile, pidfile |-> rhPidFile, proc |-> rhProc, nextPid |-> rhNextPid,
   steps |-> <<>>]

\* The lines the loop of rathole_generate_config writes for services[i..].
RECURSIVE ServiceLines(_, _)
ServiceLines(services, i) ==
  IF i > Len(services) THEN <<>>
  ELSE (IF services[i].enabled = 0 THEN <<>>
        ELSE <<"[client.services." \o services[i].name \o "]",
               "token = \"" \o services[i].token \o "\"",
               "local_addr = \"" \o services[i].local_addr \o "\"",
               "">>)
       \o ServiceLines(services, i + 1)

\* A variant of the header part that writes no remote_addr line.
ClientLinesNoAddr(addr) ==
  <<"# Rathole Client Configuration", "# Auto-generated by Web Management", "",
    "[client]", "">>

\* The lines rathole_generate_config writes before the services.
ClientLines(addr) ==
  <<"# Rathole Client Configuration", "# Auto-generated by Web Management", "",
    "[client]", "remote_addr = \"" \o addr \o "\"", "">>

\* rathole_generate_config(); fopenOk: client.toml can be opened for writing.
\* Result: <<return value, world>>.
rathole_generate_config(w, fopenOk) ==
  IF w.addr = "" THEN <<-1, w>>
  ELSE IF Len(w.services) <= 0 THEN <<-1, w>>
  ELSE IF ~fopenOk THEN <<-1, w>>
  ELSE <<0, [w EXCEPT !.config = ClientLines(w.addr) \o ServiceLines(w.services, 1),
                      !.steps = Append(@, "generate_config")]>>

\* rathole_get_status(NULL): pgrep finds the process when one runs.
rathole_get_status(w) == IF w.proc # 0 THEN 1 ELSE 0

\* rathole_clear_logs(); a failure to open the log is ignored by the caller.
rathole_clear_logs(w, fopenOk) ==
  IF fopenOk THEN [w EXCEPT !.log = "empty", !.steps = Append(@, "clear_logs")] ELSE w

\* A variant of rathole_start that reports success whatever the check finds.
rathole_start_unchecked(w, binOk, cfgOk, logOk, spawnOk, pidOk, stays) ==
  IF rathole_get_status(w) = 1 THEN <<0, w>>
  ELSE IF ~binOk THEN <<-1, w>>
  ELSE LET g == rathole_generate_config(w, cfgOk)
       IN IF g[1] # 0 THEN <<-1, g[2]>>
          ELSE LET w1 == rathole_clear_logs(g[2], logOk)
               IN IF ~spawnOk THEN <<-1, w1>>
                  ELSE <<0, [w1 EXCEPT !.proc = IF stays THEN w1.nextPid ELSE 0,
                                       !.nextPid = @ + 1,
                                       !.log = "stale",
                                       !.steps = @ \o <<"spawn", "wait_500ms">>]>>

\* rathole_start().  binOk: the binary is executable; cfgOk, logOk, pidOk: the
\* file can be opened; spawnOk: run_command succeeds and prints the pid;
\* stays: the process is still there after the 500 ms.
\* Result: <<return value, world>>.
rathole_start(w, binOk, cfgOk, logOk, spawnOk, pidOk, stays) ==
  IF rathole_get_status(w) = 1 THEN <<0, w>>
  ELSE IF ~binOk THEN <<-1, w>>
  ELSE LET g == rathole_generate_config(w, cfgOk)
       IN IF g[1] # 0 THEN <<-1, g[2]>>
          ELSE LET w1 == rathole_clear_logs(g[2], logOk)
               IN IF ~spawnOk THEN <<-1, w1>>
                  ELSE LET w2 == [w1 EXCEPT !.proc = w1.nextPid, !.nextPid = @ + 1,
                                            !.log = "stale",
                                            !.steps = Append(@, "spawn")]
                           w3 == IF pidOk
                                   THEN [w2 EXCEPT !.pidfile = w2.proc,
                                                   !.steps = Append(@, "record_pid")]
                                   ELSE w2
                           w4 == [w3 EXCEPT !.proc = IF stays THEN @ ELSE 0,
                                            !.steps = Append(@, "wait_500ms")]
                           w5 == [w4 EXCEPT !.steps = Append(@, "check_alive")]
                       IN <<IF rathole_get_status(w5) = 1 THEN 0 ELSE -1, w5>>

\* rathole_stop(): pkill, the pid file is removed, pkill -9 when needed.
rathole_stop(w) ==
  IF rathole_get_status(w) = 0 THEN w
  ELSE [w EXCEPT !.proc = 0, !.pidfile = 0]

RhCommit(w) ==
  /\ rhConfigFile' = w.config
  /\ rhLogFile' = w.log
  /\ rhPidFile' = w.pidfile
  /\ rhProc' = w.proc
  /\ rhNextPid' = w.nextPid

\* POST /api/rathole/start
RhStart(binOk, cfgOk, logOk, spawnOk, pidOk, stays) ==
  /\ UNCHANGED notRh
  /\ rhNextPid <= MaxRhPid
  /\ LET r == rathole_start(RhWorld, binOk, cfgOk, logOk, spawnOk, pidOk, stays)
     IN /\ RhCommit(r[2])
        /\ rhLast' = [running |-> rathole_get_status(RhWorld), addr |-> rhServerAddr,
                      services |-> rhServices, steps |-> r[2].steps,
                      alive |-> r[2].proc # 0, rc |-> r[1]]
  /\ UNCHANGED <<rhServerAddr, rhServices>>

\* POST /api/rathole/stop
RhStop ==
  /\ UNCHANGED notRh
  /\ RhCommit(rathole_stop(RhWorld))
  /\ UNCHANGED <<rhServerAddr, rhServices, rhLast>>

\* The process ends by itself.
RhExit ==
  /\ UNCHANGED notRh
  /\ rhProc # 0
  /\ rhProc' = 0
  /\ UNCHANGED <<rhServerAddr, rhServices, rhConfigFile, rhLogFile, rhPidFile,
                 rhNextPid, rhLast>>

\* The configuration and the services are edited.
RhEdit(addr, services) ==
  /\ UNCHANGED notRh
  /\ rhServerAddr' = addr
  /\ rhServices' = services
  /\ UNCHANGED <<rhConfigFile, rhLogFile, rhPidFile, rhProc, rhNextPid, rhLast>>

RhStartRequest ==
  \E binOk, cfgOk, logOk, spawnOk, pidOk, stays \in BOOLEAN :
    RhStart(binOk, cfgOk, logOk, spawnOk, pidOk, stays)

RhEditRequest == \E addr \in RhServerAddrs, services \in RhServiceLists : RhEdit(addr, services)

\* Nothing configured, nothing running, a log left by an earlier run.
RhInit ==
  /\ rhServerAddr = ""
  /\ rhServices = <<>>
  /\ rhConfigFile = NoRow
  /\ rhLogFile = "stale"
  /\ rhPidFile = 0
  /\ rhProc = 0
  /\ rhNextPid = 1
  /\ rhLast = NoRow

RhIdle == RhInit

RhNext == RhStartRequest \/ RhStop \/ RhExit \/ RhEditRequest

(***************************************************************************)
(* IPv6 forwarder, the rule table at its full size: ipv6_proxy_rule_add,   *)
(* ipv6_proxy_rule_list, ipv6_proxy_start, ipv6_proxy_stop,                *)
(* ipv6_proxy_get_status  (src/src/system/ofono.h).  The pid of the child  *)
(* in slot k of a start is written k; the children themselves and the kill *)
(* loop are the subject of the section above.                              *)
(***************************************************************************)
\* #define IPV6_PROXY_MAX_RULES 10
IPV6_PROXY_MAX_RULES == 10

\* Rows the model lets the table grow to.
MaxPrRows == 11

\* Arguments tried for ipv6_proxy_rule_add: <<local_port, ipv6_port>>.
PrPortInputs == {<<80, 8080>>, <<0, 8080>>, <<80, 65536>>}

\* ipv6_proxy_rule_add(local_port, ipv6_port).  insertOk: db_execute returns 0.
\* Result: <<return value, rows>>.
ipv6_proxy_rule_add(rules, local_port, ipv6_port, insertOk) ==
  IF local_port <= 0 \/ local_port > 65535 \/ ipv6_port <= 0 \/ ipv6_port > 65535
    THEN <<-1, rules>>
  ELSE IF ~insertOk THEN <<-1, rules>>
  ELSE LET new_id == Len(rules) + 1
       IN <<new_id, Append(rules, [id |-> new_id, local_port |-> local_port,
                                   ipv6_port |-> ipv6_port, enabled |-> 1])>>

\* ipv6_proxy_rule_list(rules, max_count): the first max_count rows.
ipv6_proxy_rule_list(rules, max_count, listOk) ==
  IF ~listOk THEN <<>> ELSE SubSeq(rules, 1, Min(Len(rules), max_count))

\* The loop of ipv6_proxy_start over rules[i..]: a slot and a firewall rule
\* for every enabled rule whose fork succeeds.  failing: the index of the rule
\* whose fork fails, 0 for none; fwOk: the ip6tables command succeeds.
RECURSIVE StartLoop(_, _, _, _, _, _)
StartLoop(rules, i, slots, fw, failing, fwOk) ==
  IF i > Len(rules) THEN [slots |-> slots, fw |-> fw]
  ELSE IF rules[i].enabled = 0 \/ i = failing
    THEN StartLoop(rules, i + 1, slots, fw, failing, fwOk)
  ELSE StartLoop(rules, i + 1,
                 Append(slots, [pid |-> Len(slots) + 1, id |-> rules[i].id]),
                 IF fwOk THEN fw \cup {rules[i].ipv6_port} ELSE fw,
                 failing, fwOk)

\* The forwarder as one record.
PrWorld == [rules |-> prRules, slots |-> prSlots, running |-> prRunning, fw |-> prFw]

\* ipv6_proxy_start().  Result: <<return value, world>>.
ipv6_proxy_start_table(w, listOk, failing, fwOk) ==
  IF w.running # 0 THEN <<0, w>>
  ELSE LET rules == ipv6_proxy_rule_list(w.rules, IPV6_PROXY_MAX_RULES, listOk)
       IN IF Len(rules) <= 0 THEN <<-1, w>>
          ELSE LET r == StartLoop(rules, 1, <<>>, w.fw, failing, fwOk)
               IN <<0, [w EXCEPT !.slots = r.slots, !.fw = r.fw, !.running = 1]>>

\* ipv6_proxy_stop(), as a whole: the firewall rules of the listed enabled
\* rules are removed, the children killed, the slots cleared.
ipv6_proxy_stop_table(w, listOk) ==
  IF w.running = 0 /\ Len(w.slots) = 0 THEN w
  ELSE LET rules == ipv6_proxy_rule_list(w.rules, IPV6_PROXY_MAX_RULES, listOk)
       IN [w EXCEPT !.fw = @ \ {rules[i].ipv6_port : i \in {j \in 1..Len(rules) : rules[j].enabled # 0}},
                    !.slots = <<>>, !.running = 0]

\* ipv6_proxy_get_status(status): running, active_count, rule_count.
ipv6_proxy_get_status(w) ==
  [running |-> w.running, active_count |-> Len(w.slots), rule_count |-> Len(w.rules)]

\* POST /api/ipv6-proxy/rules
PrRuleAdd(local_port, ipv6_port, insertOk) ==
  /\ UNCHANGED notPr
  /\ Len(prRules) < MaxPrRows
  /\ LET r == ipv6_proxy_rule_add(prRules, local_port, ipv6_port, insertOk)
     IN /\ prRules' = r[2]
        /\ prLast' = [op |-> "add", rc |-> r[1]]
  /\ UNCHANGED <<prSlots, prRunning, prFw>>

\* POST /api/ipv6-proxy/start
PrStart(listOk, failing, fwOk) ==
  /\ UNCHANGED notPr
  /\ LET r == ipv6_proxy_start_table(PrWorld, listOk, failing, fwOk)
     IN /\ prSlots' = r[2].slots
        /\ prRunning' = r[2].running
        /\ prFw' = r[2].fw
        /\ prLast' = [op |-> IF prRunning # 0 THEN "start_running" ELSE "start",
                      rc |-> r[1]]
  /\ UNCHANGED prRules

\* POST /api/ipv6-proxy/stop
PrStop(listOk) ==
  /\ UNCHANGED notPr
  /\ LET w == ipv6_proxy_stop_table(PrWorld, listOk)
     IN /\ prSlots' = w.slots
        /\ prRunning' = w.running
        /\ prFw' = w.fw
  /\ prLast' = [op |-> "stop", rc |-> 0]
  /\ UNCHANGED prRules

PrAddRequest ==
  \E p \in PrPortInputs, insertOk \in BOOLEAN : PrRuleAdd(p[1], p[2], insertOk)

PrStartRequest == \E listOk, fwOk \in BOOLEAN, failing \in {0, 1} : PrStart(listOk, failing, fwOk)

PrStopRequest == \E listOk \in BOOLEAN : PrStop(listOk)

\* No rules, the service stopped.
PrInit ==
  /\ prRules = <<>>
  /\ prSlots = <<>>
  /\ prRunning = 0
  /\ prFw = {}
  /\ prLast = NoRow

PrIdle == PrInit

PrNext == PrAddRequest \/ PrStartRequest \/ PrStopRequest

(***************************************************************************)
(* IPv6 address reporter (ipv6_proxy.c, printed in ofono.h).               *)
(* do_send_ipv6 is a loop: fetch the address, post it, and on a failure    *)
(* of either sleep 10 s and try again while the retry budget lasts.        *)
(***************************************************************************)
MaxRpCalls == 2

RETRY_SLEEP_SECONDS == 10

\* A variant with one more round in the budget.
max_retries_more(retry) == IF retry = 1 THEN 31 ELSE 1

\* int max_retries = retry_on_fail ? 30 : 1;
max_retries(retry) == IF retry = 1 THEN 30 ELSE 1

\* One round of the while loop: "return" leaves the function, "success" leaves
\* it after a delivery, "sleep" goes to sleep(10) and retry_count++.
do_send_ipv6_round(retry, count, addrOk, sendOk) ==
  IF ~addrOk
    THEN IF retry = 1 /\ count < max_retries(retry) - 1 THEN "sleep" ELSE "return"
    ELSE IF sendOk THEN "success"
    ELSE IF retry = 1 /\ count < max_retries(retry) - 1 THEN "sleep" ELSE "return"

\* do_send_ipv6(retry) is entered: send_timer_callback, ipv6_proxy_init and
\* ipv6_proxy_send_now pass 1, ipv6_proxy_test_send passes 0.
RpEnter(retry) ==
  /\ UNCHANGED notRp
  /\ rpPc = "idle"
  /\ rpCalls < MaxRpCalls
  /\ rpPc' = "attempt"
  /\ retry_on_fail' = retry
  /\ retry_count' = 0
  /\ rpAttempts' = 0
  /\ rpElapsed' = 0
  /\ rpSuccessAt' = 0
  /\ rpCalls' = rpCalls + 1

send_timer_callback == RpEnter(1)

ipv6_proxy_test_send == RpEnter(0)

\* One round of the loop, while (retry_count < max_retries).
RpRound(addrOk, sendOk) ==
  /\ UNCHANGED notRp
  /\ rpPc = "attempt"
  /\ LET out == do_send_ipv6_round(retry_on_fail, retry_count, addrOk, sendOk)
     IN IF retry_count >= max_retries(retry_on_fail)
          THEN /\ rpPc' = "idle"
               /\ UNCHANGED <<rpAttempts, rpSuccessAt>>
          ELSE /\ rpAttempts' = rpAttempts + 1
               /\ rpPc' = IF out = "sleep" THEN "sleep" ELSE "idle"
               /\ rpSuccessAt' = IF out = "success" THEN rpAttempts + 1 ELSE rpSuccessAt
  /\ UNCHANGED <<retry_on_fail, retry_count, rpElapsed, rpCalls>>

RpAttempt == \E addrOk \in BOOLEAN, sendOk \in BOOLEAN : RpRound(addrOk, sendOk)

\* sleep(10) returns; retry_count++.
RpWake ==
  /\ UNCHANGED notRp
  /\ rpPc = "sleep"
  /\ rpPc' = "attempt"
  /\ retry_count' = retry_count + 1
  /\ rpElapsed' = rpElapsed + RETRY_SLEEP_SECONDS
  /\ UNCHANGED <<retry_on_fail, rpAttempts, rpSuccessAt, rpCalls>>

RpInit ==
  /\ rpPc = "idle"
  /\ retry_on_fail = 0
  /\ retry_count = 0
  /\ rpAttempts = 0
  /\ rpElapsed = 0
  /\ rpSuccessAt = 0
  /\ rpCalls = 0

RpIdle == RpInit

RpNext ==
  \/ send_timer_callback
  \/ ipv6_proxy_test_send
  \/ RpAttempt
  \/ RpWake

(***************************************************************************)
(* SMS configuration row (sms.c, printed in usb_mode.c): table sms_config  *)
(* holds one row, id = 1, with the columns max_count, max_sent_count and   *)
(* sms_fix_enabled.  Every writer uses INSERT OR REPLACE, which deletes    *)
(* the row and inserts a new one: a column the statement does not name     *)
(* takes the default of the table.                                         *)
(***************************************************************************)
\* Arguments tried for the two caps (valid: 10..150 and 1..50).
CfCountInputs == {9, 10, 11, 150, 151}

CfSentInputs == {0, 1, 2, 50, 51}

\* INSERT OR REPLACE INTO sms_config (id, max_count, max_sent_count) VALUES (1, mc, msc)
replace_caps(mc, msc) ==
  [max_count |-> mc, max_sent_count |-> msc, sms_fix_enabled |-> cfFixDefault]

\* sms_get_fix_enabled: SELECT sms_fix_enabled FROM sms_config WHERE id = 1,
\* 0 when there is no row.
sms_get_fix_enabled == IF cfRow = NoRow THEN 0 ELSE cfRow.sms_fix_enabled

\* sms_set_max_count(count)
sms_set_max_count(count, writeOk) ==
  /\ UNCHANGED notCf
  /\ IF count < 10 \/ count > 150 \/ ~writeOk
       THEN UNCHANGED <<cfRow, cfMaxSms>>
       ELSE /\ cfRow' = replace_caps(count, cfMaxSent)
            /\ cfMaxSms' = count
  /\ UNCHANGED <<cfMaxSent, cfFixDefault, cfFixWritten>>

\* sms_set_max_sent_count(count)
sms_set_max_sent_count(count, writeOk) ==
  /\ UNCHANGED notCf
  /\ IF count < 1 \/ count > 50 \/ ~writeOk
       THEN UNCHANGED <<cfRow, cfMaxSent>>
       ELSE /\ cfRow' = replace_caps(cfMaxSms, count)
            /\ cfMaxSent' = count
  /\ UNCHANGED <<cfMaxSms, cfFixDefault, cfFixWritten>>

\* sms_set_fix_enabled(enabled): the AT command first; when it succeeds,
\* INSERT OR REPLACE of the whole row with the caps held in memory.
sms_set_fix_enabled(enabled, atOk, writeOk) ==
  /\ UNCHANGED notCf
  /\ IF atOk /\ writeOk
       THEN /\ cfRow' = [max_count |-> cfMaxSms, max_sent_count |-> cfMaxSent,
                        sms_fix_enabled |-> IF enabled # 0 THEN 1 ELSE 0]
            /\ cfFixWritten' = IF enabled # 0 THEN 1 ELSE 0
       ELSE UNCHANGED <<cfRow, cfFixWritten>>
  /\ UNCHANGED <<cfMaxSms, cfMaxSent, cfFixDefault>>

\* A restart: the caps start at their defaults and load_sms_config takes the
\* positive values of the row.
load_sms_config ==
  /\ UNCHANGED notCf
  /\ cfMaxSms' = IF cfRow # NoRow /\ cfRow.max_count > 0
                   THEN cfRow.max_count ELSE DEFAULT_MAX_SMS_COUNT
  /\ cfMaxSent' = IF cfRow # NoRow /\ cfRow.max_sent_count > 0
                    THEN cfRow.max_sent_count ELSE DEFAULT_MAX_SENT_COUNT
  /\ UNCHANGED <<cfRow, cfFixDefault, cfFixWritten>>

CfSetMaxCount == \E count \in CfCountInputs, writeOk \in BOOLEAN : sms_set_max_count(count, writeOk)

CfSetMaxSentCount ==
  \E count \in CfSentInputs, writeOk \in BOOLEAN : sms_set_max_sent_count(count, writeOk)

CfSetFixEnabled ==
  \E enabled \in {0, 1}, atOk, writeOk \in BOOLEAN : sms_set_fix_enabled(enabled, atOk, writeOk)

\* A new database: no row, the default caps.  The default of column
\* sms_fix_enabled is that of the table, which either reads as 0 or as 1.
CfInit ==
  /\ cfRow = NoRow
  /\ cfMaxSms = DEFAULT_MAX_SMS_COUNT
  /\ cfMaxSent = DEFAULT_MAX_SENT_COUNT
  /\ cfFixDefault \in {0, 1}
  /\ cfFixWritten = -1

CfIdle ==
  /\ cfRow = NoRow
  /\ cfMaxSms = DEFAULT_MAX_SMS_COUNT
  /\ cfMaxSent = DEFAULT_MAX_SENT_COUNT
  /\ cfFixDefault = 0
  /\ cfFixWritten = -1

CfNext ==
  \/ CfSetMaxCount
  \/ CfSetMaxSentCount
  \/ CfSetFixEnabled
  \/ load_sms_config

(***************************************************************************)
(* The restore check with each of its bus reads succeeding or failing      *)
(* (ofono.c: ofono_check_and_restore_data).  The monitor section above     *)
(* takes the reads to succeed while the daemon is on the bus; here every   *)
(* early return of the function is an outcome.                             *)
(***************************************************************************)
\* A variant that goes on to the context while the modem is not registered.
check_and_restore_steps_unregistered(w, netOk, pathOk, proxyOk, propsOk, callOk, connOk) ==
  IF ~netOk THEN <<-1, "net_status_failed", w>>
  ELSE IF ~pathOk THEN <<-1, "context_not_found", w>>
  ELSE IF ~proxyOk THEN <<-1, "proxy_failed", w>>
  ELSE IF ~propsOk THEN <<-1, "properties_failed", w>>
  ELSE LET r == ofono_check_and_restore_data([w EXCEPT !.net = "registered"], callOk, connOk)
       IN <<IF r[1] = "activate_failed" THEN -1 ELSE 0, r[1], r[2]>>

\* ofono_check_and_restore_data(result, size): <<return value, result, world>>.
\*   netOk: ofono_get_network_status returns 0;
\*   pathOk: find_internet_context_path returns 0;
\*   proxyOk: g_dbus_proxy_new_sync for the context returns a proxy;
\*   propsOk: GetProperties on the context answers;
\*   callOk: the SetProperty call of ofono_set_data_status succeeds.
check_and_restore_steps(w, netOk, pathOk, proxyOk, propsOk, callOk, connOk) ==
  IF ~netOk THEN <<-1, "net_status_failed", w>>
  ELSE IF w.net \notin {"registered", "roaming"} THEN <<0, "waiting", w>>
  ELSE IF ~pathOk THEN <<-1, "context_not_found", w>>
  ELSE IF ~proxyOk THEN <<-1, "proxy_failed", w>>
  ELSE IF ~propsOk THEN <<-1, "properties_failed", w>>
  ELSE LET r == ofono_check_and_restore_data(w, callOk, connOk)
       IN <<IF r[1] = "activate_failed" THEN -1 ELSE 0, r[1], r[2]>>

\* The daemon's side as the call finds it; the daemon is on the bus.
CrWorld ==
  [World EXCEPT !.up = TRUE, !.net = crNet, !.apn = crApn, !.active = crActive]

\* One call of ofono_check_and_restore_data.
CrCheck(netOk, pathOk, proxyOk, propsOk, callOk) ==
  /\ UNCHANGED notCr
  /\ LET r == check_and_restore_steps(CrWorld, netOk, pathOk, proxyOk, propsOk, callOk, TRUE)
     IN /\ crActive' = r[3].active
        /\ crLast' = [net |-> crNet, apn |-> crApn,
                      active |-> crActive[find_internet_context_path(CrWorld)],
                      read |-> netOk /\ (crNet \in {"registered", "roaming"} =>
                                           pathOk /\ proxyOk /\ propsOk),
                      rc |-> r[1], result |-> r[2], issued |-> r[3].issued]
  /\ UNCHANGED <<crNet, crApn>>

CrRun ==
  \E netOk, pathOk, proxyOk, propsOk, callOk \in BOOLEAN :
    CrCheck(netOk, pathOk, proxyOk, propsOk, callOk)

\* The modem registers, roams or loses the network.
CrNetwork ==
  /\ UNCHANGED notCr
  /\ \E s \in NetStatuses \ {crNet} : crNet' = s
  /\ UNCHANGED <<crApn, crActive, crLast>>

\* The access point name of the internet context is set or cleared.
CrApnChange ==
  /\ UNCHANGED notCr
  /\ \E a \in Apns \ {crApn} : crApn' = a
  /\ UNCHANGED <<crNet, crActive, crLast>>

\* The network drops a context.
CrDrop ==
  /\ UNCHANGED notCr
  /\ \E c \in Contexts : crActive[c] /\ crActive' = [crActive EXCEPT ![c] = FALSE]
  /\ UNCHANGED <<crNet, crApn, crLast>>

CrInit ==
  /\ crNet \in NetStatuses
  /\ crApn \in Apns
  /\ crActive \in [Contexts -> BOOLEAN]
  /\ crLast = NoRow

CrIdle ==
  /\ crNet = "registered"
  /\ crApn = "cmnet"
  /\ crActive = [c \in Contexts |-> TRUE]
  /\ crLast = NoRow

CrNext ==
  \/ CrRun
  \/ CrNetwork
  \/ CrApnChange
  \/ CrDrop

(***************************************************************************)
(* IPv6 forwarder tunnel: proxy_make_tunnel (ipv6_proxy.c, printed in      *)
(* ofono.h).  Each peer sends the bytes 1, 2, ..., TunnelBytes; a read      *)
(* returns up to MaxChunk of them, a write accepts any part of what it is   *)
(* given.  A buffer is the sequence of its first outlen (inlen) bytes.      *)
(***************************************************************************)
TunnelBytes == 3

\* sizeof(buf), scaled down.
MaxChunk == 2

TnStream == [i \in 1..TunnelBytes |-> i]

TnState ==
  [open |-> TRUE, outbuf |-> outbuf, inbuf |-> inbuf,
   toClient |-> tnToClient, toServer |-> tnToServer,
   fromServer |-> tnFromServer, fromClient |-> tnFromClient]

TnRest(s, n) == SubSeq(s, n + 1, Len(s))

\* "if (FD_ISSET(rsock, &wds))": sent = write(rsock, outbuf, outlen).
tunnel_flush_out(T, sent) ==
  IF ~T.open THEN T
  ELSE IF sent < 1 THEN [T EXCEPT !.open = FALSE]
  ELSE [T EXCEPT !.toClient = @ \o SubSeq(T.outbuf, 1, sent),
                 !.outbuf = TnRest(T.outbuf, sent)]

\* "if (FD_ISSET(sock, &wds))": sent = write(sock, inbuf, inlen).
tunnel_flush_in(T, sent) ==
  IF ~T.open THEN T
  ELSE IF sent < 1 THEN [T EXCEPT !.open = FALSE]
  ELSE [T EXCEPT !.toServer = @ \o SubSeq(T.inbuf, 1, sent),
                 !.inbuf = TnRest(T.inbuf, sent)]

\* realloc(b, len + ret - sent); memcpy(b + len, buf + sent, ret - sent);
\* len = ret - sent: the buffer is its first ret - sent bytes.
tunnel_keep_rest(b, buf, sent) ==
  SubSeq(b \o TnRest(buf, sent), 1, Len(buf) - sent)

\* "if (FD_ISSET(sock, &rds))": ret = read(sock, buf, sizeof(buf));
\* sent = write(rsock, buf, ret); a short write keeps the rest in outbuf.
tunnel_read_server(T, ret, sent) ==
  IF ~T.open THEN T
  ELSE IF ret < 1 THEN [T EXCEPT !.open = FALSE]
  ELSE LET buf == SubSeq(TnStream, T.fromServer + 1, T.fromServer + ret)
           T1 == [T EXCEPT !.fromServer = @ + ret]
       IN IF sent < 1 THEN [T1 EXCEPT !.open = FALSE]
          ELSE [T1 EXCEPT !.toClient = @ \o SubSeq(buf, 1, sent),
                          !.outbuf = IF sent < ret
                                       THEN tunnel_keep_rest(T.outbuf, buf, sent)
                                       ELSE @]

\* "if (FD_ISSET(rsock, &rds))": the same from the client to the server.
tunnel_read_client(T, ret, sent) ==
  IF ~T.open THEN T
  ELSE IF ret < 1 THEN [T EXCEPT !.open = FALSE]
  ELSE LET buf == SubSeq(TnStream, T.fromClient + 1, T.fromClient + ret)
           T1 == [T EXCEPT !.fromClient = @ + ret]
       IN IF sent < 1 THEN [T1 EXCEPT !.open = FALSE]
          ELSE [T1 EXCEPT !.toServer = @ \o SubSeq(buf, 1, sent),
                          !.inbuf = IF sent < ret
                                      THEN tunnel_keep_rest(T.inbuf, buf, sent)
                                      ELSE @]

\* What select() and the calls of one round return: -1 for a descriptor that
\* is not in the returned set, else the return value of the write or read.
TnFlushReturns(b) == IF b = <<>> THEN {-1} ELSE -1..Len(b)

TnReadReturns(n) == -1..Min(MaxChunk, TunnelBytes - n)

\* One round of the for (;;) loop after select() has returned: the four
\* blocks in the order of the source; cleanup frees both buffers.
TnRound(wo, wi, rs, ss, rc, sc) ==
  /\ UNCHANGED notTn
  /\ tnPc = "relaying"
  /\ wo # -1 \/ wi # -1 \/ rs # -1 \/ rc # -1
  /\ LET T1 == IF wo = -1 THEN TnState ELSE tunnel_flush_out(TnState, wo)
         T2 == IF wi = -1 THEN T1 ELSE tunnel_flush_in(T1, wi)
         T3 == IF rs = -1 THEN T2 ELSE tunnel_read_server(T2, rs, ss)
         T4 == IF rc = -1 THEN T3 ELSE tunnel_read_client(T3, rc, sc)
     IN /\ tnPc' = IF T4.open THEN "relaying" ELSE "closed"
        /\ outbuf' = IF T4.open THEN T4.outbuf ELSE <<>>
        /\ inbuf' = IF T4.open THEN T4.inbuf ELSE <<>>
        /\ tnToClient' = T4.toClient
        /\ tnToServer' = T4.toServer
        /\ tnFromServer' = T4.fromServer
        /\ tnFromClient' = T4.fromClient

TnSelect ==
  \E wo \in TnFlushReturns(outbuf), wi \in TnFlushReturns(inbuf),
     rs \in TnReadReturns(tnFromServer), rc \in TnReadReturns(tnFromClient) :
    \E ss \in 0..Max(rs, 0), sc \in 0..Max(rc, 0) :
      TnRound(wo, wi, rs, ss, rc, sc)

\* The connect() to 127.0.0.1:local_port; on failure the function goes to cleanup.
TnConnect(ok) ==
  /\ UNCHANGED notTn
  /\ tnPc = "accepted"
  /\ tnPc' = IF ok THEN "relaying" ELSE "closed"
  /\ UNCHANGED <<outbuf, inbuf, tnToClient, tnToServer, tnFromServer, tnFromClient>>

TnConnectLocal == \E ok \in BOOLEAN : TnConnect(ok)

\* The listener accepts the next connection and forks its proxy_make_tunnel.
TnAccept ==
  /\ UNCHANGED notTn
  /\ tnPc = "closed"
  /\ tnPc' = "accepted"
  /\ outbuf' = <<>>
  /\ inbuf' = <<>>
  /\ tnToClient' = <<>>
  /\ tnToServer' = <<>>
  /\ tnFromServer' = 0
  /\ tnFromClient' = 0

TnInit ==
  /\ tnPc = "accepted"
  /\ outbuf = <<>>
  /\ inbuf = <<>>
  /\ tnToClient = <<>>
  /\ tnToServer = <<>>
  /\ tnFromServer = 0
  /\ tnFromClient = 0

TnIdle == TnInit

TnNext ==
  \/ TnConnectLocal
  \/ TnSelect
  \/ TnAccept

(***************************************************************************)
(* The dispatcher thread: http_server_run (src/unnamed/part_001) runs      *)
(* g_main_context_iteration, which calls every bus-signal and timer        *)
(* callback on this one thread and goes on when the callback returns.      *)
(* on_incoming_message (usb_mode.c) and send_timer_callback (ofono.h) are  *)
(* followed through the calls in which they wait.                          *)
(***************************************************************************)
MaxDpQueue == 2

\* on_incoming_message: save_sms_to_db, then send_webhook_notification when a
\* webhook is configured; that call runs curl through popen and reads its
\* output to the end.
DpIncoming(saveOk, hookOn) ==
  /\ UNCHANGED notDp
  /\ dpIn = "none"
  /\ IF saveOk /\ hookOn
       THEN dpIn' = "on_incoming_message" /\ dpAt' = "curl"
       ELSE UNCHANGED <<dpIn, dpAt>>
  /\ dpQueue' = Max(dpQueue - 1, 0)
  /\ UNCHANGED dpRetry

DpIncomingMessage == \E saveOk, hookOn \in BOOLEAN : DpIncoming(saveOk, hookOn)

\* send_timer_callback: do_send_ipv6(1) is entered.
DpTimer ==
  /\ UNCHANGED notDp
  /\ dpIn = "none"
  /\ dpIn' = "send_timer_callback"
  /\ dpAt' = "run"
  /\ dpRetry' = 0
  /\ dpQueue' = Max(dpQueue - 1, 0)

\* do_send_ipv6, head of a round: ipv6_proxy_get_ipv6_addr, then either the
\* curl of send_webhook_notification_with_result or the failure branch.
DpRound(addrOk) ==
  /\ UNCHANGED notDp
  /\ dpIn = "send_timer_callback"
  /\ dpAt = "run"
  /\ IF addrOk
       THEN dpAt' = "curl" /\ UNCHANGED dpIn
       ELSE IF do_send_ipv6_round(1, dpRetry, FALSE, FALSE) = "sleep"
              THEN dpAt' = "sleep" /\ UNCHANGED dpIn
              ELSE dpIn' = "none" /\ dpAt' = "run"
  /\ UNCHANGED <<dpRetry, dpQueue>>

DpAddress == \E addrOk \in BOOLEAN : DpRound(addrOk)

\* curl ends (--max-time 10) and pclose returns.
DpCurl(sendOk) ==
  /\ UNCHANGED notDp
  /\ dpAt = "curl"
  /\ IF dpIn = "send_timer_callback" /\
        do_send_ipv6_round(1, dpRetry, TRUE, sendOk) = "sleep"
       THEN dpAt' = "sleep" /\ UNCHANGED dpIn
       ELSE dpIn' = "none" /\ dpAt' = "run"
  /\ UNCHANGED <<dpRetry, dpQueue>>

DpCurlDone == \E sendOk \in BOOLEAN : DpCurl(sendOk)

\* sleep(10) returns; retry_count++.
DpWake ==
  /\ UNCHANGED notDp
  /\ dpAt = "sleep"
  /\ dpAt' = "run"
  /\ dpRetry' = dpRetry + 1
  /\ UNCHANGED <<dpIn, dpQueue>>

\* A bus signal arrives or a timer becomes due while the thread is inside a
\* callback: it waits for the next g_main_context_iteration.
DpArrival ==
  /\ UNCHANGED notDp
  /\ dpIn # "none"
  /\ dpQueue < MaxDpQueue
  /\ dpQueue' = dpQueue + 1
  /\ UNCHANGED <<dpIn, dpAt, dpRetry>>

DpInit ==
  /\ dpIn = "none"
  /\ dpAt = "run"
  /\ dpRetry = 0
  /\ dpQueue = 0

DpIdle == DpInit

DpNext ==
  \/ DpIncomingMessage
  \/ DpTimer
  \/ DpAddress
  \/ DpCurlDone
  \/ DpWake
  \/ DpArrival

(***************************************************************************)
(* Bearer restore by the background components (src/src/system/ofono.c):   *)
(* the monitor's callbacks run on the dispatcher thread, the watchdog on a  *)
(* thread of its own, and both call ofono_check_and_restore_data, which     *)
(* takes no lock.  A check that decides to activate is followed in two      *)
(* steps: the decision, then the SetProperty call.  The daemon stays on the *)
(* bus and the APN is set.                                                  *)
(***************************************************************************)
MaxBgArm == 2

BgThreads == {"dispatcher", "watchdog"}

BgCommit(w) == bgWorld' = [w EXCEPT !.issued = <<>>]

\* A caller's ofono_set_data_status(active), from an HTTP handler.
BgSetDataStatus(active, callOk, connOk) ==
  /\ UNCHANGED notBg
  /\ bgPc["dispatcher"] = "idle"
  /\ LET r == ofono_set_data_status(bgWorld, active, callOk, connOk)
     IN /\ BgCommit(r[2])
        /\ bgRequested' = IF r[1] # 0 THEN bgRequested
                          ELSE IF active # 0 THEN "on" ELSE "off"
        /\ bgRevived' = IF r[1] = 0 THEN FALSE ELSE bgRevived
  /\ UNCHANGED <<bgWatchdog, bgPc>>

\* ofono_check_and_restore_data on thread th, up to its decision: a call that
\* activates nothing ends here, one that activates goes on in BgActivate.
BgCheck(th, w) ==
  LET r == ofono_check_and_restore_data(w, TRUE, TRUE)
  IN IF r[2].issued = <<>>
       THEN BgCommit(r[2]) /\ UNCHANGED bgPc
       ELSE BgCommit(w) /\ bgPc' = [bgPc EXCEPT ![th] = "activating"]

\* The ofono_set_data_status(1) of a check that decided to activate.
BgActivate(th, callOk) ==
  /\ UNCHANGED notBg
  /\ bgPc[th] = "activating"
  /\ LET r == ofono_set_data_status(bgWorld, 1, callOk, TRUE)
     IN /\ BgCommit(r[2])
        /\ bgRevived' = (bgRevived \/ r[1] = 0)
  /\ bgPc' = [bgPc EXCEPT ![th] = "idle"]
  /\ UNCHANGED <<bgWatchdog, bgRequested>>

\* data_watchdog_thread: one round of the while loop.
BgWatchdogRound ==
  /\ UNCHANGED notBg
  /\ bgWatchdog = 1
  /\ bgPc["watchdog"] = "idle"
  /\ BgCheck("watchdog", bgWorld)
  /\ UNCHANGED <<bgWatchdog, bgRequested, bgRevived>>

\* delayed_restore_data: the restore timer s is dispatched.
BgTimerFire(s) ==
  /\ UNCHANGED notBg
  /\ bgPc["dispatcher"] = "idle"
  /\ s \in bgWorld.timers
  /\ BgCheck("dispatcher",
             [bgWorld EXCEPT !.timers = @ \ {s}, !.mon.g_restore_timeout_id = 0])
  /\ UNCHANGED <<bgWatchdog, bgRequested, bgRevived>>

\* on_network_property_changed: Status changes to st.
BgNetworkChanged(st) ==
  /\ UNCHANGED notBg
  /\ bgPc["dispatcher"] = "idle"
  /\ bgWorld.net # st
  /\ LET w0 == [bgWorld EXCEPT !.net = st]
     IN IF bgWorld.mon.g_network_signal_id # 0 /\ st \in {"registered", "roaming"}
          THEN BgCheck("dispatcher", w0)
          ELSE BgCommit(w0) /\ UNCHANGED bgPc
  /\ UNCHANGED <<bgWatchdog, bgRequested, bgRevived>>

\* The name watcher's first notification: on_ofono_monitor_appeared
\* subscribes the three signals and checks the bearer.
BgNameWatchNotify ==
  /\ UNCHANGED notBg
  /\ bgPc["dispatcher"] = "idle"
  /\ bgWorld.mon.g_ofono_monitor_watch_id # 0
  /\ bgWorld.pending
  /\ BgCheck("dispatcher",
             subscribe_data_monitor_signals([bgWorld EXCEPT !.pending = FALSE]))
  /\ UNCHANGED <<bgWatchdog, bgRequested, bgRevived>>

\* The network drops context c; on_context_property_changed arms the timer.
BgContextDropped(c) ==
  /\ UNCHANGED notBg
  /\ bgPc["dispatcher"] = "idle"
  /\ bgWorld.active[c]
  /\ LET w0 == [bgWorld EXCEPT !.active[c] = FALSE]
         handled == bgWorld.mon.g_context_signal_id # 0
     IN /\ handled => bgWorld.nextId <= MaxBgArm
        /\ BgCommit(IF handled THEN on_context_property_changed(w0, FALSE) ELSE w0)
  /\ UNCHANGED <<bgWatchdog, bgPc, bgRequested, bgRevived>>

\* ofono_start_data_watchdog / ofono_stop_data_watchdog: the flag.
BgWatchdogSwitch ==
  /\ UNCHANGED notBg
  /\ bgWatchdog' = 1 - bgWatchdog
  /\ UNCHANGED <<bgWorld, bgPc, bgRequested, bgRevived>>

BgCallerRequest ==
  \E active \in {0, 1}, callOk, connOk \in BOOLEAN : BgSetDataStatus(active, callOk, connOk)

BgSetProperty == \E th \in BgThreads, callOk \in BOOLEAN : BgActivate(th, callOk)

BgRestoreTimer == \E s \in bgWorld.timers : BgTimerFire(s)

BgNetwork == \E st \in NetStatuses : BgNetworkChanged(st)

BgDrop == \E c \in Contexts : BgContextDropped(c)

BgInit ==
  /\ bgWorld \in {[up |-> TRUE, net |-> n, apn |-> "cmnet",
                   active |-> [c \in Contexts |-> a], mon |-> MonStopped,
                   timers |-> {}, nextId |-> 1, pending |-> FALSE, issued |-> <<>>] :
                  n \in NetStatuses, a \in BOOLEAN}
  /\ bgWatchdog = 0
  /\ bgPc = [th \in BgThreads |-> "idle"]
  /\ bgRequested = "none"
  /\ bgRevived = FALSE

BgIdle ==
  /\ bgWorld = [up |-> TRUE, net |-> "registered", apn |-> "cmnet",
                active |-> [c \in Contexts |-> TRUE], mon |-> MonStopped,
                timers |-> {}, nextId |-> 1, pending |-> FALSE, issued |-> <<>>]
  /\ bgWatchdog = 0
  /\ bgPc = [th \in BgThreads |-> "idle"]
  /\ bgRequested = "none"
  /\ bgRevived = FALSE

BgNext ==
  \/ BgCallerRequest
  \/ BgSetProperty
  \/ BgWatchdogRound
  \/ BgRestoreTimer
  \/ BgNetwork
  \/ BgNameWatchNotify
  \/ BgDrop
  \/ BgWatchdogSwitch

(***************************************************************************)
(* Specifications                                                          *)
(***************************************************************************)
InitAT == ATInit /\ DataIdle /\ SmsIdle /\ TplIdle /\ HttpIdle /\ SecIdle /\ Ip6Idle
          /\ UsbIdle /\ UsbSwIdle /\ PxIdle /\ WdIdle /\ WhIdle /\ MtIdle /\ RhIdle
          /\ PrIdle /\ RpIdle /\ CfIdle /\ CrIdle /\ TnIdle /\ DpIdle /\ BgIdle

SpecAT == InitAT /\ [][ATNext]_vars

InitData == ATIdle /\ DataInit /\ SmsIdle /\ TplIdle /\ HttpIdle /\ SecIdle /\ Ip6Idle
          /\ UsbIdle /\ UsbSwIdle /\ PxIdle /\ WdIdle /\ WhIdle /\ MtIdle /\ RhIdle
          /\ PrIdle /\ RpIdle /\ CfIdle /\ CrIdle /\ TnIdle /\ DpIdle /\ BgIdle

SpecData == InitData /\ [][DataNext]_vars

InitSms == ATIdle /\ DataIdle /\ SmsInit /\ TplIdle /\ HttpIdle /\ SecIdle /\ Ip6Idle
          /\ UsbIdle /\ UsbSwIdle /\ PxIdle /\ WdIdle /\ WhIdle /\ MtIdle /\ RhIdle
          /\ PrIdle /\ RpIdle /\ CfIdle /\ CrIdle /\ TnIdle /\ DpIdle /\ BgIdle

SpecSms == InitSms /\ [][SmsNext]_vars

InitTpl == ATIdle /\ DataIdle /\ SmsIdle /\ TplInit /\ HttpIdle /\ SecIdle /\ Ip6Idle
          /\ UsbIdle /\ UsbSwIdle /\ PxIdle /\ WdIdle /\ WhIdle /\ MtIdle /\ RhIdle
          /\ PrIdle /\ RpIdle /\ CfIdle /\ CrIdle /\ TnIdle /\ DpIdle /\ BgIdle

\* The loops are code that is running: a step that is possible is taken.
SpecTpl == InitTpl /\ [][TplNext]_vars /\ WF_vars(TplNext)

InitHttp == ATIdle /\ DataIdle /\ SmsIdle /\ TplIdle /\ HttpInit /\ SecIdle /\ Ip6Idle
          /\ UsbIdle /\ UsbSwIdle /\ PxIdle /\ WdIdle /\ WhIdle /\ MtIdle /\ RhIdle
          /\ PrIdle /\ RpIdle /\ CfIdle /\ CrIdle /\ TnIdle /\ DpIdle /\ BgIdle

SpecHttp == InitHttp /\ [][HttpNext]_vars

InitSec == ATIdle /\ DataIdle /\ SmsIdle /\ TplIdle /\ HttpIdle /\ SecInit /\ Ip6Idle
          /\ UsbIdle /\ UsbSwIdle /\ PxIdle /\ WdIdle /\ WhIdle /\ MtIdle /\ RhIdle
          /\ PrIdle /\ RpIdle /\ CfIdle /\ CrIdle /\ TnIdle /\ DpIdle /\ BgIdle

SpecSec == InitSec /\ [][SecNext]_vars

InitIp6 == ATIdle /\ DataIdle /\ SmsIdle /\ TplIdle /\ HttpIdle /\ SecIdle /\ Ip6Init
          /\ UsbIdle /\ UsbSwIdle /\ PxIdle /\ WdIdle /\ WhIdle /\ MtIdle /\ RhIdle
          /\ PrIdle /\ RpIdle /\ CfIdle /\ CrIdle /\ TnIdle /\ DpIdle /\ BgIdle

SpecIp6 == InitIp6 /\ [][Ip6Next]_vars

InitUsb == ATIdle /\ DataIdle /\ SmsIdle /\ TplIdle /\ HttpIdle /\ SecIdle /\ Ip6Idle
          /\ UsbInit /\ UsbSwIdle /\ PxIdle /\ WdIdle /\ WhIdle /\ MtIdle /\ RhIdle
          /\ PrIdle /\ RpIdle /\ CfIdle /\ CrIdle /\ TnIdle /\ DpIdle /\ BgIdle

SpecUsb == InitUsb /\ [][UsbNext]_vars

InitUsbSw == ATIdle /\ DataIdle /\ SmsIdle /\ TplIdle /\ HttpIdle /\ SecIdle /\ Ip6Idle
          /\ UsbIdle /\ UsbSwInit /\ PxIdle /\ WdIdle /\ WhIdle /\ MtIdle /\ RhIdle
          /\ PrIdle /\ RpIdle /\ CfIdle /\ CrIdle /\ TnIdle /\ DpIdle /\ BgIdle

SpecUsbSw == InitUsbSw /\ [][UsbSwNext]_vars

InitPx == ATIdle /\ DataIdle /\ SmsIdle /\ TplIdle /\ HttpIdle /\ SecIdle /\ Ip6Idle
          /\ UsbIdle /\ UsbSwIdle /\ PxInit /\ WdIdle /\ WhIdle /\ MtIdle /\ RhIdle
          /\ PrIdle /\ RpIdle /\ CfIdle /\ CrIdle /\ TnIdle /\ DpIdle /\ BgIdle

SpecPx == InitPx /\ [][PxNext]_vars

InitWd == ATIdle /\ DataIdle /\ SmsIdle /\ TplIdle /\ HttpIdle /\ SecIdle /\ Ip6Idle
          /\ UsbIdle /\ UsbSwIdle /\ PxIdle /\ WdInit /\ WhIdle /\ MtIdle /\ RhIdle
          /\ PrIdle /\ RpIdle /\ CfIdle /\ CrIdle /\ TnIdle /\ DpIdle /\ BgIdle

SpecWd == InitWd /\ [][WdNext]_vars

InitWh == ATIdle /\ DataIdle /\ SmsIdle /\ TplIdle /\ HttpIdle /\ SecIdle /\ Ip6Idle
          /\ UsbIdle /\ UsbSwIdle /\ PxIdle /\ WdIdle /\ WhInit /\ MtIdle /\ RhIdle
          /\ PrIdle /\ RpIdle /\ CfIdle /\ CrIdle /\ TnIdle /\ DpIdle /\ BgIdle

SpecWh == InitWh /\ [][WhNext]_vars

InitMt == ATIdle /\ DataIdle /\ SmsIdle /\ TplIdle /\ HttpIdle /\ SecIdle /\ Ip6Idle
          /\ UsbIdle /\ UsbSwIdle /\ PxIdle /\ WdIdle /\ WhIdle /\ MtInit /\ RhIdle
          /\ PrIdle /\ RpIdle /\ CfIdle /\ CrIdle /\ TnIdle /\ DpIdle /\ BgIdle

SpecMt == InitMt /\ [][MtNext]_vars

InitRh == ATIdle /\ DataIdle /\ SmsIdle /\ TplIdle /\ HttpIdle /\ SecIdle /\ Ip6Idle
          /\ UsbIdle /\ UsbSwIdle /\ PxIdle /\ WdIdle /\ WhIdle /\ MtIdle /\ RhInit
          /\ PrIdle /\ RpIdle /\ CfIdle /\ CrIdle /\ TnIdle /\ DpIdle /\ BgIdle

SpecRh == InitRh /\ [][RhNext]_vars

InitPr == ATIdle /\ DataIdle /\ SmsIdle /\ TplIdle /\ HttpIdle /\ SecIdle /\ Ip6Idle
          /\ UsbIdle /\ UsbSwIdle /\ PxIdle /\ WdIdle /\ WhIdle /\ MtIdle /\ RhIdle
          /\ PrInit /\ RpIdle /\ CfIdle /\ CrIdle /\ TnIdle /\ DpIdle /\ BgIdle

SpecPr == InitPr /\ [][PrNext]_vars

InitRp == ATIdle /\ DataIdle /\ SmsIdle /\ TplIdle /\ HttpIdle /\ SecIdle /\ Ip6Idle
          /\ UsbIdle /\ UsbSwIdle /\ PxIdle /\ WdIdle /\ WhIdle /\ MtIdle /\ RhIdle
          /\ PrIdle /\ RpInit /\ CfIdle /\ CrIdle /\ TnIdle /\ DpIdle /\ BgIdle

\* do_send_ipv6 runs on a live thread: a round that can run does run, and
\* sleep(10) returns.
SpecRp == InitRp /\ [][RpNext]_vars /\ WF_vars(RpAttempt) /\ WF_vars(RpWake)

InitCf == ATIdle /\ DataIdle /\ SmsIdle /\ TplIdle /\ HttpIdle /\ SecIdle /\ Ip6Idle
          /\ UsbIdle /\ UsbSwIdle /\ PxIdle /\ WdIdle /\ WhIdle /\ MtIdle /\ RhIdle
          /\ PrIdle /\ RpIdle /\ CfInit /\ CrIdle /\ TnIdle /\ DpIdle /\ BgIdle

SpecCf == InitCf /\ [][CfNext]_vars

InitCr == ATIdle /\ DataIdle /\ SmsIdle /\ TplIdle /\ HttpIdle /\ SecIdle /\ Ip6Idle
          /\ UsbIdle /\ UsbSwIdle /\ PxIdle /\ WdIdle /\ WhIdle /\ MtIdle /\ RhIdle
          /\ PrIdle /\ RpIdle /\ CfIdle /\ CrInit /\ TnIdle /\ DpIdle /\ BgIdle

SpecCr == InitCr /\ [][CrNext]_vars

InitTn == ATIdle /\ DataIdle /\ SmsIdle /\ TplIdle /\ HttpIdle /\ SecIdle /\ Ip6Idle
          /\ UsbIdle /\ UsbSwIdle /\ PxIdle /\ WdIdle /\ WhIdle /\ MtIdle /\ RhIdle
          /\ PrIdle /\ RpIdle /\ CfIdle /\ CrIdle /\ TnInit /\ DpIdle /\ BgIdle

SpecTn == InitTn /\ [][TnNext]_vars

InitDp == ATIdle /\ DataIdle /\ SmsIdle /\ TplIdle /\ HttpIdle /\ SecIdle /\ Ip6Idle
          /\ UsbIdle /\ UsbSwIdle /\ PxIdle /\ WdIdle /\ WhIdle /\ MtIdle /\ RhIdle
          /\ PrIdle /\ RpIdle /\ CfIdle /\ CrIdle /\ TnIdle /\ DpInit /\ BgIdle

SpecDp == InitDp /\ [][DpNext]_vars

InitBg == ATIdle /\ DataIdle /\ SmsIdle /\ TplIdle /\ HttpIdle /\ SecIdle /\ Ip6Idle
          /\ UsbIdle /\ UsbSwIdle /\ PxIdle /\ WdIdle /\ WhIdle /\ MtIdle /\ RhIdle
          /\ PrIdle /\ RpIdle /\ CfIdle /\ CrIdle /\ TnIdle /\ DpIdle /\ BgInit

SpecBg == InitBg /\ [][BgNext]_vars

(***************************************************************************)
(* Properties                                                              *)
(***************************************************************************)

\* C1: no two execute_at invocations are inside the SendAtcmd bus call at
\* the same time, however many threads call execute_at concurrently.
C1_AtSerialized == Cardinality({t \in AtThreads : atPc[t] = "incall"}) <= 1

\* C1 witness: one thread is inside the bus call while another one has
\* reached pthread_mutex_lock and is kept waiting there.
C1_Witness ==
  \E t, u \in AtThreads : t # u /\ atPc[t] = "incall" /\ atPc[u] = "lock"

\* C2: a burst of Active=false events (each arriving while the restore timer
\* armed by the previous one is still pending) leads to exactly one run of
\* delayed_restore_data: there is never more than one armed restore timer,
\* because every new event cancels the one armed before; the timer runs the
\* restore at most once per burst; and once the timer is idle again after a
\* burst the restore has run exactly once.
C2_BurstCoalesced ==
  /\ Cardinality(timers) <= 1
  /\ burstRuns <= 1
  /\ (burstEvents >= 1 /\ timers = {}) => burstRuns = 1

\* C2 witness: a burst of at least two Active=false events has been answered
\* by one run of the restore, and no timer is left armed.
C2_Witness == burstEvents >= 2 /\ burstRuns = 1 /\ timers = {}

C4_CapsHold ==
  smsPc = "idle" =>
    /\ Cardinality(smsIds) <= g_max_sms_count
    /\ Cardinality(sentIds) <= g_max_sent_count

\* C5: the substitution terminates for every template and every value, a
\* value containing a variable token included: the last loop is left.
C5_SubstitutionTerminates == <>(tplPhase = "done")

\* C6: the content sms_get_list returns for a stored incoming message equals
\* the body that was delivered, byte for byte.
C6_BodyRoundTrip ==
  (smsDelivered.id # 0 /\ smsDelivered.id \in smsIds /\ smsStored.id = smsDelivered.id)
    => sms_get_list_newest = smsDelivered.content

\* C7: a request to an API endpoint other than /api/auth/login and
\* /api/auth/status that carries no bearer token, or one that does not
\* validate, is answered with 401 and no handler is executed for it.
C7_Unauthorized401 ==
  (/\ httpReq # NoRow
   /\ IsApiUri(httpReq.uri)
   /\ httpReq.uri \notin {<<"api", "auth", "login">>, <<"api", "auth", "status">>}
   /\ httpReq.token # "valid")
    => (httpStatus = 401 /\ httpRan = "none")

\* C8: once a setup has succeeded, every later setup call returns -1
\* (AlreadySet) and the persisted questions, answer hashes and creation time
\* stay as that setup left them.
C8_SetupOnce ==
  secFirst # NoRow =>
    /\ secRow = secFirst
    /\ secReq.later => secRc = -1

\* C9: after a successful save with auto_start set, the persisted row has
\* enabled = 1 whatever enabled value was supplied, and so has the
\* configuration a read returns afterwards (from memory, or from the row read
\* back when the process starts anew).
C9_AutoStartEnables ==
  /\ (ip6Saved # NoRow /\ ip6Saved.auto_start # 0) => ip6Row.enabled = 1
  /\ (/\ ip6Read # NoRow
      /\ ip6Read.saved # NoRow
      /\ ip6Read.saved.auto_start # 0
      /\ ip6Read.filled # "default") => ip6Read.config.enabled = 1

\* C9 witness: a save with auto_start = 1 and enabled = 0 has succeeded, and
\* the read that followed it returned enabled = 1.
C9_Witness ==
  /\ ip6Rc = 0
  /\ ip6Saved # NoRow /\ ip6Saved.auto_start = 1 /\ ip6Saved.enabled = 0
  /\ ip6Row.enabled = 1
  /\ ip6Read # NoRow /\ ip6Read.saved = ip6Saved /\ ip6Read.filled = "saved"
  /\ ip6Read.config.enabled = 1

\* C10: usb_mode_get returns the temporary file's value whenever that file
\* exists and can be read, whatever the persistent file holds; the value of
\* the persistent file is used only when the temporary file is absent or
\* cannot be read.
C10_TmpWins ==
  usbGot # NoRow =>
    /\ usbGot.tmp.state = "holds" =>
         (usbGot.mode = usbGot.tmp.mode /\ usbGot.from = "tmp")
    /\ usbGot.from = "cfg" =>
         (usbGot.tmp.state \in {"absent", "unreadable"}
          /\ usbGot.mode = read_mode_from_file(usbGot.cfg))

\* C10 witness: both files hold a mode, the two differ, and usb_mode_get
\* returned the one of the temporary file.
C10_Witness ==
  /\ usbGot # NoRow
  /\ usbGot.tmp.state = "holds" /\ usbGot.cfg.state = "holds"
  /\ usbGot.tmp.mode # usbGot.cfg.mode
  /\ usbGot.mode = usbGot.tmp.mode

\* The steps of the switch that has performed step b performed step a before.
SwBefore(a, b) ==
  \A j \in 1..Len(swLog) : swLog[j] = b => \E i \in 1..(j - 1) : swLog[i] = a

SwDone(step) == \E i \in 1..Len(swLog) : swLog[i] = step

\* C11: on POST /api/usb-advance with a valid mode the response has been
\* written to the client before the UDC is detached.
C11_ResponseBeforeDetach ==
  (connReply = "switching" /\ SwDone("detach_udc")) => connSend = "sent"

\* C12: usb_mode_switch_advanced keeps the order of its steps: adbd is stopped
\* and the UDC detached before any link or function dir is removed or
\* created; the links are created before adbd is started again; the UDC is
\* attached after the functionfs wait, with the name captured before the
\* detach; the network is brought up after the attach.
C12_SwitchOrder ==
  /\ \A s \in {"remove_function_links", "remove_cdc_functions", "create_function_dir",
               "create_gser_functions", "create_multi_function_links"} :
       SwBefore("stop_adbd", s) /\ SwBefore("detach_udc", s)
  /\ SwBefore("create_multi_function_links", "start_adbd")
  /\ SwDone("start_adbd") => "f1" \in gadget.links
  /\ SwBefore("wait_for_functionfs", "attach_udc")
  /\ SwBefore("get_udc_name", "detach_udc")
  /\ SwDone("attach_udc") => (gadget.udc = udc_name /\ gadget.udc = get_udc_name(udcClass))
  /\ SwBefore("attach_udc", "configure_usb_network")
  /\ (SwDone("detach_udc") /\ ~SwDone("attach_udc")) => (gadget.udc = "none" /\ ~gadget.net)

\* C12 witness: a switch to another mode has run to its end: the links are
\* in place, adbd runs, the UDC is attached again and the network is up.
C12_Witness ==
  /\ swPc = 0 /\ swRet = 0
  /\ SwDone("configure_usb_network")
  /\ gadget.mode = 3 /\ gadget.links = FunctionLinks /\ gadget.adbd
  /\ gadget.udc = udc_name /\ gadget.net

\* C13: ipv6_proxy_stop removes the firewall rules of the enabled rules,
\* then sends SIGKILL to each recorded child and reaps it, then clears the
\* slots: no child is killed while the port of an enabled rule is still
\* open, and once the slots are cleared every child that was recorded has
\* been reaped.
C13_StopOrder ==
  /\ pxKilledAt # NoRow => pxKilledAt.open = {}
  /\ (pxPc = "idle" /\ g_rule_slots = <<>>) =>
       \A pid \in DOMAIN pxProcs : pxProcs[pid] = "reaped"

\* C14: after the watchdog is stopped its thread exits within 1 s and begins
\* no check after the stop: a sleep that was running at the stop is its last
\* one and ends within the second (conditions take no time); only a check
\* that is in flight keeps the thread alive for longer.
C14_WatchdogStops ==
  \A t \in DOMAIN wdThreads :
    wdThreads[t].stoppedAt # -1 =>
      /\ ~wdThreads[t].late
      /\ wdThreads[t].pc = "sleep" =>
           (wdNow <= wdThreads[t].stoppedAt + 1
            /\ wdThreads[t].wakeAt <= wdThreads[t].stoppedAt + 1)


\* C15: once the monitor has handled the vanish of the daemon's bus name,
\* the three signal subscriptions are gone and no restore timer is pending
\* (no Active=false event arrives while the daemon is off the bus), and no
\* run of delayed_restore_data finds the daemon off the bus.
C15_VanishCancelsTimer ==
  /\ (mon.g_data_monitor_running # 0 /\ ~ofonoUp /\ ~watchPending) =>
       /\ mon.g_context_signal_id = 0
       /\ mon.g_network_signal_id = 0
       /\ mon.g_manager_signal_id = 0
       /\ timers = {}
       /\ mon.g_restore_timeout_id = 0
  /\ lastRun.at # -1 => lastRun.up


\* C16: a call of ofono_set_data_status(1) that returns 0 leaves the monitor
\* running, and a call of ofono_set_data_status(0) that returns 0 leaves it
\* stopped: no signal subscription, no name watch, no pending restore timer.
C16_SetDataStatusMonitor ==
  [][\A active \in {0, 1}, callOk, connOk \in BOOLEAN :
       (/\ SetDataStatus(active, callOk, connOk)
        /\ ofono_set_data_status(World, active, callOk, connOk)[1] = 0) =>
         IF active # 0 THEN mon'.g_data_monitor_running # 0
         ELSE mon' = MonStopped /\ timers' = {}]_vars

\* C17: a delivery is logged as a success exactly when its response is not
\* empty and holds none of the markers curl:, Could not resolve, Connection
\* refused, Connection timed out.
C17_OutcomeRule ==
  \A i \in 0..(g_webhook_log_count - 1) :
    LET e == g_webhook_logs[i]
    IN (e.result = 1) <=>
         /\ e.response # <<>>
         /\ \A m \in {"curl:", "Could not resolve", "Connection refused",
                      "Connection timed out"} : ~response_has(e.response, m)

\* C18: the log never holds more than MAX_WEBHOOK_LOGS entries, and after n
\* deliveries sms_get_webhook_logs returns the min(n, MAX_WEBHOOK_LOGS) latest
\* ones, the newest first.
C18_RingOfRecent ==
  /\ g_webhook_log_count <= MAX_WEBHOOK_LOGS
  /\ LET n == g_webhook_log_id
         k == Min(n, MAX_WEBHOOK_LOGS)
         got == sms_get_webhook_logs(WhLog, MAX_WEBHOOK_LOGS)
     IN /\ Len(got) = k
        /\ \A i \in 1..k : got[i].id = n - i + 1

\* C19: every sms_send call leaves one row in sent_sms for its result: with
\* status sent when the daemon accepted the message, with status failed when
\* the bus call failed or timed out.
C19_SendRecorded ==
  smsSendLast # NoRow =>
    smsSendLast.status = (IF smsSendLast.accepted THEN "sent" ELSE "failed")

C21_AppearReapplies ==
  mtAppeared # NoRow =>
    /\ mtAppeared.sub # 0
    /\ mtAppeared.fix # 0 =>
         \E i \in 1..Len(mtAppeared.at) : mtAppeared.at[i] = AT_CNMI_FIX

\* Position of step in the steps of the last rathole_start call, 0 when absent.
RhStepAt(step) ==
  IF \E i \in 1..Len(rhLast.steps) : rhLast.steps[i] = step
    THEN CHOOSE i \in 1..Len(rhLast.steps) : rhLast.steps[i] = step
    ELSE 0

\* The steps of the last rathole_start call are in the order of the source.
RhInOrder ==
  \A i, j \in 1..Len(rhLast.steps) :
    LET rank(s) == CHOOSE k \in 1..6 :
                     <<"generate_config", "clear_logs", "spawn", "record_pid",
                       "wait_500ms", "check_alive">>[k] = s
    IN i < j => rank(rhLast.steps[i]) < rank(rhLast.steps[j])

\* C22 as stated: every rathole_start that returns success has regenerated
\* the config, truncated the log, spawned the binary and recorded the pid, in
\* that order, and has found the process alive 500 ms after the spawn; a call
\* that does not find it alive returns failure.
C22_StartOrder ==
  rhLast # NoRow =>
    /\ RhInOrder
    /\ rhLast.rc = 0 =>
         /\ RhStepAt("generate_config") # 0 /\ RhStepAt("clear_logs") # 0
         /\ RhStepAt("spawn") # 0 /\ RhStepAt("record_pid") # 0
         /\ RhStepAt("check_alive") # 0 /\ rhLast.alive
    /\ ~rhLast.alive => rhLast.rc # 0

\* C22, amended: a rathole_start that finds no process running performs its
\* steps in the order of the source; it returns success only after it has
\* regenerated the config, spawned the binary, waited and found the process
\* alive, and returns failure when the process is not alive at the check.  A
\* call that finds the process running returns success and does nothing.
C22_StartOrderWhenStopped ==
  rhLast # NoRow =>
    /\ RhInOrder
    /\ (rhLast.running = 0 /\ rhLast.rc = 0) =>
         /\ RhStepAt("generate_config") # 0
         /\ RhStepAt("spawn") > RhStepAt("generate_config")
         /\ RhStepAt("wait_500ms") > RhStepAt("spawn")
         /\ RhStepAt("check_alive") > RhStepAt("wait_500ms")
         /\ rhLast.alive
         /\ rhConfigFile # NoRow
    /\ (rhLast.running = 0 /\ ~rhLast.alive) => rhLast.rc # 0
    /\ rhLast.running = 1 => (rhLast.rc = 0 /\ rhLast.steps = <<>>)

\* C22 witness: a start from the stopped state has gone through all its
\* steps and has found the process alive.
C22_Witness ==
  /\ rhLast # NoRow /\ rhLast.running = 0 /\ rhLast.rc = 0
  /\ rhLast.steps = <<"generate_config", "clear_logs", "spawn", "record_pid",
                      "wait_500ms", "check_alive">>
  /\ rhProc # 0 /\ rhPidFile = rhProc /\ rhLogFile = "stale"

\* The document of Scenario F.
ScenarioF ==
  <<"[client]", "remote_addr = \"198.51.100.5:2333\"", "",
    "[client.services.web]", "token = \"t1\"", "local_addr = \"127.0.0.1:80\"">>

\* rathole_generate_config has just written client.toml for the inputs of
\* Scenario F.
RhScenarioFGenerated ==
  /\ rhLast # NoRow
  /\ \E i \in 1..Len(rhLast.steps) : rhLast.steps[i] = "generate_config"
  /\ rhLast.addr = "198.51.100.5:2333"
  /\ rhLast.services = <<RhWeb>>

\* C23 as stated: for the inputs of Scenario F the generated client.toml is
\* exactly the document of Scenario F, with no other content.
C23_ExactlyScenarioF == RhScenarioFGenerated => rhConfigFile = ScenarioF

\* C23, amended: for the inputs of Scenario F the generated client.toml is
\* two comment lines and a blank line, then the document of Scenario F, then
\* a blank line.
C23_ScenarioFWithHeader ==
  RhScenarioFGenerated =>
    rhConfigFile = <<"# Rathole Client Configuration",
                     "# Auto-generated by Web Management", "">>
                   \o ScenarioF \o <<"">>

\* C23 witness: client.toml has been generated for the inputs of Scenario F
\* and holds the [client] table and the web service.
C23_Witness ==
  /\ RhScenarioFGenerated
  /\ Len(rhConfigFile) = 10
  /\ rhConfigFile[4] = "[client]" /\ rhConfigFile[7] = "[client.services.web]"

\* C24: with the rule {local_port 80, ipv6_port 8080} as the only row, after
\* a start of the stopped service that returned 0 the listing has exactly one
\* row with enabled = 1, the status shows running = 1 and active_count = 1,
\* and ip6tables accepts dport 8080.
C24_AddThenStart ==
  (/\ prLast # NoRow /\ prLast.op = "start" /\ prLast.rc = 0
   /\ Len(prRules) = 1 /\ prRules[1].local_port = 80 /\ prRules[1].ipv6_port = 8080) =>
    /\ LET l == ipv6_proxy_rule_list(prRules, IPV6_PROXY_MAX_RULES, TRUE)
       IN Len(l) = 1 /\ l[1].enabled = 1
    /\ ipv6_proxy_get_status(PrWorld).running = 1
    /\ ipv6_proxy_get_status(PrWorld).active_count = 1
    /\ 8080 \in prFw

\* C27: at most IPV6_PROXY_MAX_RULES rules are persisted and at most
\* IPV6_PROXY_MAX_RULES slots are in use.
C27_AtMostTenRules ==
  /\ Len(prRules) <= IPV6_PROXY_MAX_RULES
  /\ Len(prSlots) <= IPV6_PROXY_MAX_RULES

\* C25: a report made with retry_on_fail makes at most 30 attempts, sleeps 10 s
\* before each attempt after the first, makes no attempt after the one that
\* delivered, and every report that starts ends.
RpSafe ==
  /\ rpAttempts <= 30
  /\ rpPc = "attempt" => rpAttempts = retry_count
  /\ rpPc # "attempt" /\ rpCalls > 0 => rpAttempts = retry_count + 1
  /\ rpElapsed = 10 * retry_count
  /\ rpSuccessAt # 0 => rpPc = "idle" /\ rpAttempts = rpSuccessAt
  /\ retry_on_fail = 0 => rpAttempts <= 1

C25_BoundedRetries ==
  /\ []RpSafe
  /\ (rpPc # "idle") ~> (rpPc = "idle")

C25_Witness ==
  /\ retry_on_fail = 1
  /\ rpPc = "idle"
  /\ rpAttempts = 30
  /\ rpElapsed = 290
  /\ rpSuccessAt = 30

\* C26: a read of the SMS configuration returns the values last written: the
\* stored SMS-fix flag is the one sms_set_fix_enabled last stored, whatever
\* caps were written since, and the caps of the row are the caps last written.
C26_ReadIsLastWrite ==
  /\ cfFixWritten # -1 => sms_get_fix_enabled = cfFixWritten
  /\ cfRow # NoRow => cfRow.max_count = cfMaxSms /\ cfRow.max_sent_count = cfMaxSent

\* C28 (as stated): the restore check issues an activation if and only if the
\* modem is registered or roaming, the internet context has a non-empty APN
\* and the context is inactive; otherwise it reports "waiting", "APN not
\* configured" or "connected" and issues nothing.
CrRegistered == crLast.net \in {"registered", "roaming"}

CrActivation == <<[path |-> find_internet_context_path(CrWorld), value |-> 1]>>

C28_ActivatesIff ==
  crLast # NoRow =>
    /\ crLast.issued # <<>> <=> CrRegistered /\ crLast.apn # "" /\ ~crLast.active
    /\ crLast.issued # <<>> => crLast.issued = CrActivation
    /\ ~CrRegistered => crLast.result = "waiting"
    /\ CrRegistered /\ crLast.apn = "" => crLast.result = "apn_missing"
    /\ CrRegistered /\ crLast.apn # "" /\ crLast.active => crLast.result = "connected"

\* C28 (amended): the same, for a call whose reads of the registration status
\* and of the context succeed; a call with a failed read returns -1 and
\* issues nothing.
C28_ActivatesIffRead ==
  crLast # NoRow =>
    /\ crLast.issued # <<>> <=>
         crLast.read /\ CrRegistered /\ crLast.apn # "" /\ ~crLast.active
    /\ crLast.issued # <<>> =>
         /\ crLast.issued = CrActivation
         /\ crLast.result \in {"restored", "activate_failed"}
    /\ ~crLast.read => crLast.rc = -1
    /\ crLast.read /\ ~CrRegistered => crLast.result = "waiting" /\ crLast.rc = 0
    /\ crLast.read /\ CrRegistered /\ crLast.apn = "" =>
         crLast.result = "apn_missing" /\ crLast.rc = 0
    /\ crLast.read /\ CrRegistered /\ crLast.apn # "" /\ crLast.active =>
         crLast.result = "connected" /\ crLast.rc = 0

C28_Witness ==
  /\ crLast # NoRow
  /\ crLast.read
  /\ crLast.net = "roaming"
  /\ crLast.apn # ""
  /\ ~crLast.active
  /\ crLast.issued = CrActivation
  /\ crLast.result = "restored"
  /\ crActive[find_internet_context_path(CrWorld)]

\* C29: while a connection is relayed, in each direction the bytes written to
\* the destination followed by the bytes waiting in the overflow buffer are
\* exactly the bytes read from the source, in order.
C29_RelayExact ==
  tnPc = "relaying" =>
    /\ tnToClient \o outbuf = SubSeq(TnStream, 1, tnFromServer)
    /\ tnToServer \o inbuf = SubSeq(TnStream, 1, tnFromClient)

\* C30: one execute_at makes at most two SendAtcmd calls; it makes a second
\* one only after the first came back with "connection closed" and the bus
\* proxy was set up again, or with "Operation already in progress" and the
\* 500 ms wait; after any other result no further call is made.
C30_AtMostOneRetry ==
  \A t \in AtThreads :
    /\ atCalls[t] <= 2
    /\ Len(atLog[t]) <= atCalls[t]
    /\ atCalls[t] = 2 => atLog[t][1] \in {"closed", "in_progress"}
    /\ atPc[t] = "sleep" => atLog[t][Len(atLog[t])] = "in_progress"
    /\ (atPc[t] \in {"send", "incall"} /\ atLog[t] # <<>>) =>
         /\ Len(atLog[t]) = 1
         /\ atLog[t][1] \in {"closed", "in_progress"}
         /\ atLog[t][1] = "closed" => is_dbus_initialized
    /\ (atLog[t] # <<>> /\ atLog[t][Len(atLog[t])] \in {"ok", "empty", "other"}) =>
         atPc[t] \in {"unlock", "idle"}

C30_Witness ==
  \E t \in AtThreads :
    /\ atPc[t] = "idle"
    /\ atCalls[t] = 2
    /\ atLog[t] = <<"closed", "ok">>
    /\ atRc[t] = 0

\* C40: the bus connection and the modem proxy are created, closed and
\* re-created only while the AT lock is held, and no thread is about to run
\* init_dbus() while another thread is about to run it or is inside SendAtcmd.
AtInitAlone ==
  \A t1, t2 \in AtThreads :
    (t1 # t2 /\ atPc[t1] = "init") => atPc[t2] \notin {"init", "incall"}

C40_ProxyUnderLock ==
  /\ []AtInitAlone
  /\ [][(g_modem_proxy' # g_modem_proxy \/ g_dbus_conn' # g_dbus_conn) => g_at_mutex # 0]_vars

\* C31: the dispatcher thread is never held inside a callback: it does not
\* wait for the HTTP delivery inside on_incoming_message, and inside
\* send_timer_callback it waits neither for the delivery nor in a retry sleep.
C31_CallbacksDoNotBlock ==
  dpIn # "none" => dpAt \notin {"curl", "sleep"}

\* C32: after a successful ofono_set_data_status(0), no background component
\* (restore timer, signal handler, watchdog) sets Active = true until a caller
\* requests ofono_set_data_status(1).
C32_OffStaysOff ==
  bgRequested = "off" => ~bgRevived

\* C33: ofono_check_and_restore_data is never run by the watchdog thread and
\* the dispatcher thread at the same time, so no two SetProperty Active = true
\* requests overlap.
C33_OneCheckAtATime ==
  ~(bgPc["dispatcher"] = "activating" /\ bgPc["watchdog"] = "activating")

\* C34: whatever sequence of ofono_start_data_watchdog and
\* ofono_stop_data_watchdog calls is made, at most one watchdog thread is alive.
C34_OneWatchdogThread ==
  Cardinality({t \in 1..MaxWdThreads : WdAlive(t)}) <= 1

\* C35: every return of usb_mode_switch_advanced that comes after the UDC was
\* detached has attached it again: once the function has returned, the gadget
\* is bound to a UDC.
C35_ReturnsReattached ==
  (swPc = 0 /\ swRet # 1 /\ SwDone("detach_udc")) =>
    (SwDone("attach_udc") /\ gadget.udc # "none")

\* C36: once ipv6_proxy_stop has returned, none of the firewall ACCEPT rules
\* that ipv6_proxy_start added is installed any more, whatever was done to
\* the rule table while the service was running.
C36_StopRemovesFirewall == (pxPc = "idle" /\ g_service_running = 0) => pxFw = {}

\* C37: when ipv6_proxy_stop has returned, no process of the forwarder is
\* left: every worker that was forked has terminated and been reaped, and no
\* connection handler forked by a worker is alive.
C37_StopLeavesNoProcess ==
  (pxPc = "idle" /\ g_service_running = 0) =>
    /\ \A pid \in DOMAIN pxProcs : pxProcs[pid] = "reaped"
    /\ pxHandlers = {}

\* The workers that are alive.
PxAlive == {pid \in DOMAIN pxProcs : pxProcs[pid] = "running"}

\* C38: whenever the status reports running = 1, active_count (g_rule_count)
\* is the number of workers that are alive, and it is not 0.
C38_ActiveCountIsAlive ==
  (pxPc = "idle" /\ g_service_running = 1) =>
    /\ Len(g_rule_slots) = Cardinality(PxAlive)
    /\ Len(g_rule_slots) > 0

\* C39: when a maintenance tick has reconnected the engine's bus connection
\* (it found the connection closed or cleared, the bus reachable) and
\* org.ofono is on the bus, sms_send hands the message to the daemon, and
\* the name watch that reports the daemon's vanish/appear is in place.
C39_ReconnectRestoresSend ==
  (/\ mtTick # NoRow /\ mtTick.init = 1
   /\ mtTick.conn \in {"null", "closed"} /\ mtTick.reachable
   /\ mtOfonoUp) =>
    /\ sms_send(MtState) = "SendMessage"
    /\ g_name_watch_id # 0

====
